---------------------------- MODULE Spec2Model ----------------------------
(***************************************************************************)
(* Simulation kernel of Agent Tycoon: Ledger (ledger.py), TradeBackend,    *)
(* ProjectBackend, DebtBackend (backends.py), AllocationManager            *)
(* (router.py), SimulationEngine (engine.py) and HODLBot (hodl_bot.py).    *)
(*                                                                         *)
(* Decimal values are fixed-point integers:                                *)
(*   money      : 1 = 0.0001 USD (Cent = 100 of them), so that the product *)
(*                price * quantity of the code is an exact integer;        *)
(*   quantity   : 1 = 0.000001 unit, the exponent TradeBackend quantizes   *)
(*                shares to (Decimal('1.0') = Unit);                       *)
(*   price      : money per quantity unit, 1 = 100.00 USD a share.         *)
(* Decimal.quantize rounds half-even, and so do Quantize and RoundDiv.     *)
(* A Decimal division the code does not quantize (28 significant digits)   *)
(* is exact for the catalogue below and rounds at the model's unit         *)
(* otherwise.                                                              *)
(***************************************************************************)
EXTENDS Integers, Sequences, FiniteSets, TLC

VARIABLES
    ledger,            \* the primary Ledger: [_cash, assets, price_provider]
    trade_backend,     \* TradeBackend.stocks: ticker -> price
    debt_backend,      \* DebtBackend.get_bond_price: bond_id -> current_price, in the
                       \* unit the ledger's prices are counted in
    debt_book,         \* DebtBackend: [base_interest_rate, bonds], each Bond with its
                       \* terms, its current_price in cents and its yield_to_maturity
    project_backend,   \* ProjectBackend: [remaining_funding, agent_investments]
    router,            \* AllocationManager: which backends are attached
    engine,            \* SimulationEngine: [current_tick, last_shock_tick, nav_history,
                       \*                    enable_hodl_comparison]
    hodl,              \* hodl_engine and hodl_bot: [ledger, engine, is_hodling]
    twin,              \* the same run with enable_hodl_comparison false, for comparison
    last_call,         \* what the last operation was given and returned
    audit              \* history: the trades made so far

vars == <<ledger, trade_backend, debt_backend, debt_book, project_backend, router, engine,
          hodl, twin, last_call, audit>>

-----------------------------------------------------------------------------
(* Fixed-point Decimal arithmetic *)

Cent == 100
Unit == 1000000
Epsilon == 1

Abs(x) == IF x < 0 THEN 0 - x ELSE x
\* a minimum that always takes its first argument
FirstOf(a, b) == a

Min(a, b) == IF a <= b THEN a ELSE b
Max(a, b) == IF a >= b THEN a ELSE b

\* a / b to the nearest integer, ties to the even one (ROUND_HALF_EVEN); b > 0
RoundDiv(a, b) ==
    LET q == a \div b
        r == a % b
    IN  IF 2 * r < b THEN q
        ELSE IF 2 * r > b THEN q + 1
        ELSE IF q % 2 = 0 THEN q ELSE q + 1

\* Decimal.quantize(Decimal('0.01'))
Quantize(x) == Cent * RoundDiv(x, Cent)

\* the element of a one-element set: The({e(v) : v \in {x}}) is e(x) with x
\* evaluated once
The(S) == CHOOSE x \in S : TRUE

\* <<quotient, remainder>> of r * b / c from h, those of r * (b \div 2) / c
MulDivStep(h, r, b, c) ==
    LET m2 == 2 * h[2]
        m3 == (m2 % c) + (IF b % 2 = 1 THEN r ELSE 0)
    IN  <<2 * h[1] + (m2 \div c) + (m3 \div c), m3 % c>>

\* <<quotient, remainder>> of r * b / c for 0 <= r < c, without forming r * b
RECURSIVE MulDivQR(_, _, _)
MulDivQR(r, b, c) ==
    IF b = 0 THEN <<0, 0>>
    ELSE The({MulDivStep(h, r, b, c) : h \in {MulDivQR(r, b \div 2, c)}})

MulDivRound(q, rem, c) ==
    IF 2 * rem < c THEN q
    ELSE IF 2 * rem > c THEN q + 1
    ELSE IF q % 2 = 0 THEN q ELSE q + 1

\* (a / c) * b as the code computes cost_basis / quantity * quantity_sold
MulDiv(a, b, c) ==
    The({MulDivRound((x \div z) * y + qr[1], qr[2], z) :
            <<x, y, z, qr>> \in {<<a, b, c, MulDivQR(a % c, b, c)>>}})

RECURSIVE SeqSum(_)
SeqSum(s) == IF s = <<>> THEN 0 ELSE Head(s) + SeqSum(Tail(s))

-----------------------------------------------------------------------------
(* Ledger (ledger.py) *)

Asset(asset_type, identifier, quantity, cost_basis) ==
    [asset_type |-> asset_type, identifier |-> identifier,
     quantity |-> quantity, cost_basis |-> cost_basis]

\* Ledger.__init__
NewLedger(initial_cash, price_provider) ==
    [_cash |-> initial_cash, assets |-> <<>>, price_provider |-> price_provider]

\* the cash property: the stored balance quantized to 2 places
cash(L) == Quantize(L._cash)

\* the cash setter
set_cash(L, value) == [L EXCEPT !._cash = Quantize(value)]

\* Ledger._find_asset: index of the first matching asset, 0 for None
find_asset(L, asset_type, identifier) ==
    LET hits == {i \in 1..Len(L.assets) :
                    /\ L.assets[i].asset_type = asset_type
                    /\ L.assets[i].identifier = identifier}
    IN  IF hits = {} THEN 0 ELSE CHOOSE i \in hits : \A j \in hits : i <= j

RemoveAt(s, i) == SubSeq(s, 1, i - 1) \o SubSeq(s, i + 1, Len(s))

\* an add_asset that opens a new position for every addition
add_asset_unmerged(L, asset_type, identifier, quantity, total_cost) ==
    IF total_cost > cash(L) THEN [ok |-> FALSE, ledger |-> L]
    ELSE [ok |-> TRUE,
          ledger |-> [L EXCEPT
                         !._cash = @ - total_cost,
                         !.assets = Append(@, Asset(asset_type, identifier, quantity,
                                                    total_cost))]]

\* add_asset without the comparison of total_cost with cash
add_asset_unchecked(L, asset_type, identifier, quantity, total_cost) ==
    LET i == find_asset(L, asset_type, identifier)
        assets2 ==
            IF i # 0
            THEN [L.assets EXCEPT
                     ![i].quantity = @ + quantity,
                     ![i].cost_basis = @ + total_cost]
            ELSE Append(L.assets, Asset(asset_type, identifier, quantity, total_cost))
    IN  [ok |-> TRUE,
         ledger |-> [L EXCEPT !._cash = @ - total_cost, !.assets = assets2]]

\* Ledger.add_asset: [ok, ledger]
add_asset(L, asset_type, identifier, quantity, total_cost) ==
    IF total_cost > cash(L) THEN [ok |-> FALSE, ledger |-> L]
    ELSE LET i == find_asset(L, asset_type, identifier)
             assets2 ==
                 IF i # 0
                 THEN [L.assets EXCEPT
                          ![i].quantity = @ + quantity,
                          ![i].cost_basis = @ + total_cost]
                 ELSE Append(L.assets, Asset(asset_type, identifier, quantity, total_cost))
         IN  [ok |-> TRUE,
              ledger |-> [L EXCEPT !._cash = @ - total_cost, !.assets = assets2]]


\* what the ledger's price_provider answers for EQUITY: TRUE when it has get_price
\* and knows the ticker (the provider is the TradeBackend or a wrapper of it)
has_equity_price(L, M, identifier) ==
    /\ L.price_provider # "None"
    /\ identifier \in DOMAIN M.stocks

\* the same for BOND: the provider has get_bond_price and knows the bond
has_bond_price(L, M, identifier) ==
    /\ L.price_provider = "PriceProvider"
    /\ identifier \in DOMAIN M.bonds

has_live_price(L, M, a) ==
    \/ a.asset_type = "EQUITY" /\ has_equity_price(L, M, a.identifier)
    \/ a.asset_type = "BOND" /\ has_bond_price(L, M, a.identifier)

live_price(M, a) ==
    IF a.asset_type = "EQUITY" THEN M.stocks[a.identifier] ELSE M.bonds[a.identifier]

\* a remove_asset that takes the proceeds of the sale off the cost basis
remove_asset_at_sale_price(L, M, asset_type, identifier, quantity) ==
    LET i == find_asset(L, asset_type, identifier)
    IN  IF i = 0 \/ L.assets[i].quantity < quantity
        THEN [ok |-> FALSE, proceeds |-> 0, raised |-> FALSE, ledger |-> L]
        ELSE
        LET asset == L.assets[i]
        IN  IF asset.quantity = 0
            THEN [ok |-> FALSE, proceeds |-> 0, raised |-> TRUE, ledger |-> L]
            ELSE
            LET proceeds == IF has_live_price(L, M, asset)
                            THEN live_price(M, asset) * quantity
                            ELSE MulDiv(asset.cost_basis, quantity, asset.quantity)
                left     == [asset EXCEPT !.quantity = @ - quantity,
                                          !.cost_basis = @ - proceeds]
                assets2  == IF left.quantity <= Epsilon
                            THEN RemoveAt(L.assets, i)
                            ELSE [L.assets EXCEPT ![i] = left]
            IN  [ok |-> TRUE, proceeds |-> proceeds, raised |-> FALSE,
                 ledger |-> [L EXCEPT !._cash = @ + proceeds, !.assets = assets2]]

\* Ledger.remove_asset: [ok, proceeds, raised, ledger]; raised is the
\* ZeroDivisionError of cost_basis / quantity for a position of quantity 0
remove_asset(L, M, asset_type, identifier, quantity) ==
    LET i == find_asset(L, asset_type, identifier)
    IN  IF i = 0 \/ L.assets[i].quantity < quantity
        THEN [ok |-> FALSE, proceeds |-> 0, raised |-> FALSE, ledger |-> L]
        ELSE
        LET asset == L.assets[i]
        IN  IF asset.quantity = 0
            THEN [ok |-> FALSE, proceeds |-> 0, raised |-> TRUE, ledger |-> L]
            ELSE
            LET by_cost  == MulDiv(asset.cost_basis, quantity, asset.quantity)
                proceeds == IF has_live_price(L, M, asset)
                            THEN live_price(M, asset) * quantity
                            ELSE by_cost
                left     == [asset EXCEPT !.quantity = @ - quantity,
                                          !.cost_basis = @ - by_cost]
                assets2  == IF left.quantity <= Epsilon
                            THEN RemoveAt(L.assets, i)
                            ELSE [L.assets EXCEPT ![i] = left]
            IN  [ok |-> TRUE, proceeds |-> proceeds, raised |-> FALSE,
                 ledger |-> [L EXCEPT !._cash = @ + proceeds, !.assets = assets2]]

\* a get_nav that falls back to the cost basis, as get_portfolio_holdings does
nav_value_at_cost(L, M, a) ==
    IF has_live_price(L, M, a) THEN a.quantity * live_price(M, a) ELSE a.cost_basis

\* the market value get_nav adds for one asset: nothing without a live price
nav_value(L, M, a) ==
    IF has_live_price(L, M, a) THEN a.quantity * live_price(M, a) ELSE 0

\* Ledger.get_nav
get_nav(L, M) ==
    Quantize(cash(L) + SeqSum([i \in 1..Len(L.assets) |-> nav_value(L, M, L.assets[i])]))

\* Ledger.get_portfolio_holdings
get_portfolio_holdings(L, M) ==
    [i \in 1..Len(L.assets) |->
        LET a == L.assets[i]
            current_value == IF has_live_price(L, M, a)
                             THEN Quantize(a.quantity * live_price(M, a))
                             ELSE a.cost_basis
        IN  [asset_type |-> a.asset_type, identifier |-> a.identifier,
             quantity |-> RoundDiv(a.quantity, Epsilon),
             current_value |-> Quantize(current_value)]]

-----------------------------------------------------------------------------
(* Allocations (models.py) *)

EquityAlloc(ticker, usd) == [asset_type |-> "EQUITY", id |-> ticker, usd |-> usd]
ProjectAlloc(project_id, usd) == [asset_type |-> "PROJECT", id |-> project_id, usd |-> usd]
BondAlloc(bond_id, usd) == [asset_type |-> "BOND", id |-> bond_id, usd |-> usd]
CashAlloc(usd) == [asset_type |-> "CASH", id |-> "", usd |-> usd]

-----------------------------------------------------------------------------
(* TradeBackend and DebtBackend (backends.py) *)

Done(ok, L) == [ok |-> ok, raised |-> FALSE, ledger |-> L]

\* a sell path that sells what is held when more is asked for, and reports the
\* sale as failed
execute_sell_what_is_held(asset_type, identifier, quantity, L, M) ==
    LET i == find_asset(L, asset_type, identifier)
    IN  IF i = 0 THEN Done(FALSE, L)
        ELSE IF L.assets[i].quantity < quantity
        THEN LET r == remove_asset(L, M, asset_type, identifier, L.assets[i].quantity)
             IN  [ok |-> FALSE, raised |-> r.raised, ledger |-> r.ledger]
        ELSE LET r == remove_asset(L, M, asset_type, identifier, quantity)
             IN  [ok |-> r.ok, raised |-> r.raised, ledger |-> r.ledger]

\* the sell path shared by both backends: find the position, check the quantity,
\* Ledger.remove_asset
execute_sell(asset_type, identifier, quantity, L, M) ==
    LET i == find_asset(L, asset_type, identifier)
    IN  IF i = 0 \/ L.assets[i].quantity < quantity
        THEN Done(FALSE, L)
        ELSE LET r == remove_asset(L, M, asset_type, identifier, quantity)
             IN  [ok |-> r.ok, raised |-> r.raised, ledger |-> r.ledger]

\* TradeBackend._execute_buy
TradeBackend_execute_buy(ticker, usd_amount, price, L) ==
    IF cash(L) < usd_amount THEN Done(FALSE, L)
    ELSE LET shares == RoundDiv(usd_amount, price)
             r == add_asset(L, "EQUITY", ticker, shares, usd_amount)
         IN  Done(r.ok, r.ledger)

\* TradeBackend._execute_sell
TradeBackend_execute_sell(ticker, usd_amount, price, L, M) ==
    execute_sell("EQUITY", ticker, RoundDiv(usd_amount, price), L, M)

\* TradeBackend.execute_allocation: [ok, raised, ledger]
TradeBackend_execute_allocation(allocation, L, M) ==
    IF allocation.id \notin DOMAIN M.stocks THEN Done(FALSE, L)
    ELSE LET price == M.stocks[allocation.id]
         IN  IF allocation.usd > 0
             THEN TradeBackend_execute_buy(allocation.id, allocation.usd, price, L)
             ELSE IF allocation.usd < 0
             THEN TradeBackend_execute_sell(allocation.id, Abs(allocation.usd), price, L, M)
             ELSE Done(TRUE, L)

\* TradeBackend.update_prices: the tickers the backend knows take the new price
update_prices(stocks, price_changes) ==
    [t \in DOMAIN stocks |->
        IF t \in DOMAIN price_changes THEN price_changes[t] ELSE stocks[t]]

\* DebtBackend._execute_buy: bond units are usd / price, not quantized
DebtBackend_execute_buy(bond_id, usd_amount, price, L) ==
    IF cash(L) < usd_amount THEN Done(FALSE, L)
    ELSE LET bond_units == RoundDiv(usd_amount, price)
             r == add_asset(L, "BOND", bond_id, bond_units, usd_amount)
         IN  Done(r.ok, r.ledger)

\* DebtBackend._execute_sell
DebtBackend_execute_sell(bond_id, usd_amount, price, L, M) ==
    execute_sell("BOND", bond_id, RoundDiv(usd_amount, price), L, M)

\* DebtBackend.execute_allocation: [ok, raised, ledger]
DebtBackend_execute_allocation(allocation, L, M) ==
    IF allocation.id \notin DOMAIN M.bonds THEN Done(FALSE, L)
    ELSE LET price == M.bonds[allocation.id]
         IN  IF allocation.usd > 0
             THEN DebtBackend_execute_buy(allocation.id, allocation.usd, price, L)
             ELSE IF allocation.usd < 0
             THEN DebtBackend_execute_sell(allocation.id, Abs(allocation.usd), price, L, M)
             ELSE Done(TRUE, L)

-----------------------------------------------------------------------------
(* Bond and DebtBackend.update_interest_rates (backends.py) *)

\* Rates (base_interest_rate, coupon_rate, yield_to_maturity) are counted in
\* 0.0001, the exponent yield_to_maturity is quantized to; face_value and
\* current_price of a Bond in cents, the exponent current_price is quantized to.
RateUnit == 10000

\* Bond._calculate_ytm: (annual_coupon + (face_value - current_price) /
\* maturity_years) / current_price, quantized to 0.0001
calculate_ytm(bond) ==
    IF bond.current_price = 0 THEN 0
    ELSE LET annual_coupon == (bond.face_value * bond.coupon_rate) \div RateUnit
         IN  RoundDiv(RateUnit * (annual_coupon * bond.maturity_years
                                     + bond.face_value - bond.current_price),
                      bond.maturity_years * bond.current_price)

\* Bond.__init__
Bond(face_value, coupon_rate, maturity_years, current_price) ==
    The({[b EXCEPT !.yield_to_maturity = calculate_ytm(b)] :
         b \in {[face_value |-> face_value, coupon_rate |-> coupon_rate,
                 maturity_years |-> maturity_years, current_price |-> current_price,
                 yield_to_maturity |-> 0]}})

\* Decimal(market_config['base_interest_rate']), 0.03
BaseInterestRate == 300

\* DebtBackend.__init__ over a catalogue bond_id -> Bond
NewDebtBackend(bonds) == [base_interest_rate |-> BaseInterestRate, bonds |-> bonds]

\* DebtBackend.get_bond_price for every bond, in the ledger's price unit
get_bond_prices(DB) ==
    [b \in DOMAIN DB.bonds |-> RoundDiv(DB.bonds[b].current_price, RateUnit)]

\* <<whole, remainder>> of current_price * factor / RateUnit, for factor > 0
price_times(current_price, factor) ==
    The({<<(current_price \div RateUnit) * factor + qr[1], qr[2]>> :
         qr \in {MulDivQR(current_price % RateUnit, factor, RateUnit)}})

\* an update_interest_rates that bounds the price by 0.05 and 3.0 times the
\* face value
bond_price_after_wide_bounds(bond, rate_change) ==
    LET factor == RateUnit - bond.maturity_years * rate_change
        min_price == bond.face_value \div 20
        max_price == 3 * bond.face_value
    IN  IF factor <= 0 THEN min_price
        ELSE The({IF p[1] < min_price THEN min_price
                  ELSE IF p[1] >= max_price THEN max_price
                  ELSE MulDivRound(p[1], p[2], RateUnit) :
                  p \in {price_times(bond.current_price, factor)}})

\* the price update_interest_rates gives a bond: current_price times
\* (1 - maturity_years * rate_change), bounded by 0.1 and 2.0 times the face
\* value, then quantized to cents (both bounds are whole cents for the face
\* values of the catalogue)
bond_price_after(bond, rate_change) ==
    LET factor == RateUnit - bond.maturity_years * rate_change
        min_price == bond.face_value \div 10
        max_price == 2 * bond.face_value
    IN  IF factor <= 0 THEN min_price
        ELSE The({IF p[1] < min_price THEN min_price
                  ELSE IF p[1] >= max_price THEN max_price
                  ELSE MulDivRound(p[1], p[2], RateUnit) :
                  p \in {price_times(bond.current_price, factor)}})

\* DebtBackend.update_interest_rates(economic_data); the interest_rate of
\* economic_data is absent, None (<<>>) or a rate in percent, given here in
\* hundredths of a percent (<<450>> for 4.5)
update_interest_rates(DB, economic_data) ==
    IF "interest_rate" \notin DOMAIN economic_data THEN DB
    ELSE IF economic_data["interest_rate"] = <<>> THEN DB
    ELSE LET new_base_rate == economic_data["interest_rate"][1]
             rate_change == new_base_rate - DB.base_interest_rate
         IN  [base_interest_rate |-> new_base_rate,
              bonds |-> [b \in DOMAIN DB.bonds |->
                  The({[bond EXCEPT !.yield_to_maturity = calculate_ytm(bond)] :
                       bond \in {[DB.bonds[b] EXCEPT
                           !.current_price = bond_price_after(DB.bonds[b], rate_change)]}})]]

-----------------------------------------------------------------------------
(* ProjectBackend (backends.py) *)

\* the project catalogue the backend is configured with (config_loader.py gives
\* the shape): required_investment in money, weeks_to_completion in ticks
ProjectConfig ==
    ("P-001" :> [name |-> "Alpha", required_investment |-> 300 * Cent,
                 weeks_to_completion |-> 2])
    @@ ("P-002" :> [name |-> "Beta", required_investment |-> 2000000 * Cent,
                    weeks_to_completion |-> 3])

\* the multipliers _calculate_project_payout can draw, in percent of the amount
\* invested: a salvage fraction from uniform(0.1, 0.3), a lognormal multiplier
PayoutPcts == {20, 125}

\* ProjectBackend.__init__ / _initialize_sample_projects
\* history kept beside the code's fields: tick_calls counts the calls of tick,
\* created the records ever made
NewProjectBackend ==
    [remaining_funding |-> [p \in DOMAIN ProjectConfig |-> ProjectConfig[p].required_investment],
     agent_investments |-> <<>>,
     tick_calls |-> 0, created |-> 0]

\* a record of agent_investments; serial and made_at are history: the record's
\* number and the count of tick calls when it was made
ProjectInvestment(project_id, amount_invested, weeks_remaining, serial, made_at) ==
    [project_id |-> project_id, amount_invested |-> amount_invested,
     weeks_remaining |-> weeks_remaining, serial |-> serial, made_at |-> made_at]

\* a get_available_projects that lists a project again once the agent has no
\* open investment in it
get_available_projects_reopened(PB) ==
    {p \in DOMAIN PB.remaining_funding :
        \/ PB.remaining_funding[p] > 0
        \/ \A i \in 1..Len(PB.agent_investments) : PB.agent_investments[i].project_id # p}

\* ProjectBackend.get_available_projects: the ids, in catalogue order
get_available_projects(PB) ==
    {p \in DOMAIN PB.remaining_funding : PB.remaining_funding[p] > 0}

\* an execute_allocation that keeps one countdown per project: a new commitment
\* restarts the countdown of the records the project already has
ProjectBackend_execute_allocation_shared(allocation, L, PB) ==
    LET project_id == allocation.id
        investment_amount == allocation.usd
        rejected == [ok |-> FALSE, raised |-> FALSE, ledger |-> L, pb |-> PB]
    IN  IF project_id \notin DOMAIN PB.remaining_funding THEN rejected
        ELSE IF PB.remaining_funding[project_id] <= 0 THEN rejected
        ELSE IF cash(L) < investment_amount THEN rejected
        ELSE
        LET actual_investment == Min(investment_amount, PB.remaining_funding[project_id])
            r == add_asset(L, "PROJECT", project_id, Unit, actual_investment)
            weeks == ProjectConfig[project_id].weeks_to_completion
        IN  IF ~r.ok THEN rejected
            ELSE [ok |-> TRUE, raised |-> FALSE, ledger |-> r.ledger,
                  pb |-> [PB EXCEPT
                             !.remaining_funding[project_id] = @ - actual_investment,
                             !.agent_investments =
                                 [i \in 1..Len(@) |->
                                     IF @[i].project_id = project_id
                                     THEN [@[i] EXCEPT !.weeks_remaining = weeks]
                                     ELSE @[i]]
                                 \o <<ProjectInvestment(project_id, actual_investment, weeks,
                                                        PB.created + 1, PB.tick_calls)>>,
                             !.created = @ + 1]]

\* ProjectBackend.execute_allocation: [ok, raised, ledger, pb]
ProjectBackend_execute_allocation(allocation, L, PB) ==
    LET project_id == allocation.id
        investment_amount == allocation.usd
        rejected == [ok |-> FALSE, raised |-> FALSE, ledger |-> L, pb |-> PB]
    IN  IF project_id \notin DOMAIN PB.remaining_funding THEN rejected
        ELSE IF PB.remaining_funding[project_id] <= 0 THEN rejected
        ELSE IF cash(L) < investment_amount THEN rejected
        ELSE
        LET actual_investment == Min(investment_amount, PB.remaining_funding[project_id])
            r == add_asset(L, "PROJECT", project_id, Unit, actual_investment)
        IN  IF ~r.ok THEN rejected
            ELSE [ok |-> TRUE, raised |-> FALSE, ledger |-> r.ledger,
                  pb |-> [PB EXCEPT
                             !.remaining_funding[project_id] = @ - actual_investment,
                             !.agent_investments =
                                 Append(@, ProjectInvestment(project_id, actual_investment,
                                               ProjectConfig[project_id].weeks_to_completion,
                                               PB.created + 1, PB.tick_calls)),
                             !.created = @ + 1]]

\* ProjectBackend._calculate_project_payout, the drawn multiplier given in percent
calculate_project_payout(investment, pct) ==
    Quantize(MulDiv(investment.amount_invested, pct, 100))

\* a completion that removes the whole position of the project, not one unit
complete_investment_whole_position(L, M, investment, payout) ==
    LET i == find_asset(L, "PROJECT", investment.project_id)
        r == remove_asset(L, M, "PROJECT", investment.project_id,
                          IF i = 0 THEN Unit ELSE L.assets[i].quantity)
    IN  set_cash(r.ledger, cash(r.ledger) + payout)

\* the body of ProjectBackend.tick's loop for a record whose countdown reached 0:
\* remove one unit of the position (the result is not looked at), credit the payout
complete_investment(L, M, investment, payout) ==
    LET r == remove_asset(L, M, "PROJECT", investment.project_id, Unit)
    IN  set_cash(r.ledger, cash(r.ledger) + payout)

CompletionNews(investment, payout) ==
    [event_type |-> "PROJECT_COMPLETION", project_id |-> investment.project_id,
     succeeded |-> payout > investment.amount_invested, payout |-> payout,
     serial |-> investment.serial, made_at |-> investment.made_at]

\* ProjectBackend.tick over the records from index i on: [ledger, news];
\* draws[k] is the multiplier drawn for the record of serial k
RECURSIVE tick_loop(_, _, _, _, _)
tick_loop(L, M, investments, draws, i) ==
    IF i > Len(investments) THEN [ledger |-> L, news |-> <<>>]
    ELSE IF investments[i].weeks_remaining - 1 <= 0
    THEN LET payout == calculate_project_payout(investments[i], draws[investments[i].serial])
         IN  The({[ledger |-> rest.ledger,
                   news |-> <<CompletionNews(investments[i], payout)>> \o rest.news] :
                  rest \in {The({tick_loop(L2, M, investments, draws, i + 1) :
                      L2 \in {complete_investment(L, M, investments[i], payout)}})}})
    ELSE tick_loop(L, M, investments, draws, i + 1)

\* agent_investments after the loop: every countdown one lower, completed ones removed
RECURSIVE countdown(_)
countdown(investments) ==
    IF investments = <<>> THEN <<>>
    ELSE LET inv == Head(investments)
         IN  (IF inv.weeks_remaining - 1 <= 0 THEN <<>>
              ELSE <<[inv EXCEPT !.weeks_remaining = @ - 1]>>)
             \o countdown(Tail(investments))

\* the records _calculate_project_payout will be called for in the next tick
Completing(PB) ==
    {PB.agent_investments[i].serial :
        i \in {j \in 1..Len(PB.agent_investments) :
                  PB.agent_investments[j].weeks_remaining - 1 <= 0}}

\* ProjectBackend.tick(ledger): [ledger, pb, news]
ProjectBackend_tick(L, M, PB, draws) ==
    LET r == tick_loop(L, M, PB.agent_investments, draws, 1)
    IN  [ledger |-> r.ledger,
         pb |-> [PB EXCEPT !.agent_investments = countdown(PB.agent_investments),
                           !.tick_calls = @ + 1],
         news |-> r.news]

-----------------------------------------------------------------------------
(* AllocationManager (router.py) *)

\* the batch positions of one asset class, in batch order
RECURSIVE of_class(_, _, _)
of_class(allocations, asset_type, i) ==
    IF i > Len(allocations) THEN <<>>
    ELSE (IF allocations[i].asset_type = asset_type THEN <<i>> ELSE <<>>)
         \o of_class(allocations, asset_type, i + 1)

FailedAllocation(allocation, reason) == [allocation |-> allocation, reason |-> reason]

\* the backend call a processing loop makes for allocation a: [ok, raised, ledger, pb]
backend_call(W, M, a) ==
    IF a.asset_type = "EQUITY"
    THEN TradeBackend_execute_allocation(a, W.ledger, M) @@ [pb |-> W.pb]
    ELSE IF a.asset_type = "PROJECT"
    THEN ProjectBackend_execute_allocation(a, W.ledger, W.pb)
    ELSE DebtBackend_execute_allocation(a, W.ledger, M) @@ [pb |-> W.pb]

\* the reason recorded for a call that returned false or raised
failure_reason(a, raised) ==
    IF a.asset_type = "EQUITY"
    THEN (IF raised THEN "Trade error" ELSE "Trade execution failed")
    ELSE IF a.asset_type = "PROJECT"
    THEN (IF raised THEN "Project error" ELSE "Project investment failed")
    ELSE (IF raised THEN "Bond error" ELSE "Bond transaction failed")

\* one pass of a processing loop, for batch position i
\* W = [ledger, pb, failed_allocations, calls]
route_one(W, M, allocations, i) ==
    The({[ledger |-> r.ledger, pb |-> r.pb,
          failed_allocations |->
              IF r.ok THEN W.failed_allocations
              ELSE Append(W.failed_allocations,
                          FailedAllocation(allocations[i],
                                           failure_reason(allocations[i], r.raised))),
          calls |-> Append(W.calls, i)] :
         r \in {backend_call(W, M, allocations[i])}})

\* an execute_action whose loops stop at the first backend call that raises
RECURSIVE route_all_until_raise(_, _, _, _)
route_all_until_raise(W, M, allocations, order) ==
    IF order = <<>> THEN W
    ELSE The({IF /\ Len(W2.failed_allocations) > Len(W.failed_allocations)
                 /\ W2.failed_allocations[Len(W2.failed_allocations)].reason
                        \in {"Trade error", "Project error", "Bond error"}
              THEN W2
              ELSE route_all_until_raise(W2, M, allocations, Tail(order)) :
                 W2 \in {route_one(W, M, allocations, Head(order))}})

RECURSIVE route_all(_, _, _, _)
route_all(W, M, allocations, order) ==
    IF order = <<>> THEN W
    ELSE The({route_all(W2, M, allocations, Tail(order)) :
                 W2 \in {route_one(W, M, allocations, Head(order))}})

\* an execute_action that runs its bond loop before its project loop
processing_order_debt_first(R, allocations) ==
    of_class(allocations, "EQUITY", 1)
    \o (IF R.debt_backend THEN of_class(allocations, "BOND", 1) ELSE <<>>)
    \o (IF R.project_backend THEN of_class(allocations, "PROJECT", 1) ELSE <<>>)

\* the order execute_action makes its backend calls in, as batch positions
processing_order(R, allocations) ==
    of_class(allocations, "EQUITY", 1)
    \o (IF R.project_backend THEN of_class(allocations, "PROJECT", 1) ELSE <<>>)
    \o (IF R.debt_backend THEN of_class(allocations, "BOND", 1) ELSE <<>>)

\* AllocationManager.execute_action: [ledger, pb, failed_allocations, calls]
execute_action(R, L, M, PB, allocations) ==
    route_all([ledger |-> L, pb |-> PB, failed_allocations |-> <<>>, calls |-> <<>>],
              M, allocations, processing_order(R, allocations))

-----------------------------------------------------------------------------
(* SimulationEngine (engine.py) *)

MinTicksBetweenShocks == 5
NavHistoryLen == 10
TerminationTick == 100

\* SimulationEngine.__init__; manager_ledger is <<>> while the allocation
\* manager holds the ledger the engine holds, and <<L>> once reset has given the
\* engine a new Ledger and left the old one, L, with the manager
\* adaptability_measurer is the shock_events list of the AdaptabilityMeasurer
NewEngine(enable_hodl_comparison) ==
    [current_tick |-> 0, last_shock_tick |-> 0, nav_history |-> <<>>,
     enable_hodl_comparison |-> enable_hodl_comparison, manager_ledger |-> <<>>,
     adaptability_measurer |-> <<>>]

\* an action: None is NoAction
Action(allocations, cognition_cost) ==
    [given |-> TRUE, allocations |-> allocations, cognition_cost |-> cognition_cost]

NoAction == [given |-> FALSE, allocations |-> <<>>, cognition_cost |-> 0]

\* what random.random, random.choice and random.uniform can make of one tick:
\* no shock, a rate hike, a rate cut, or a market volatility event that moves
\* each price by its own percentage within -15 .. +15
NoShock == [kind |-> "NONE", pct |-> <<>>]

ShockOutcomes ==
    {NoShock, [kind |-> "RATE_HIKE", pct |-> <<>>], [kind |-> "RATE_CUT", pct |-> <<>>],
     [kind |-> "MARKET_VOLATILITY", pct |-> ("AAPL" :> -12) @@ ("GOOGL" :> 12)],
     [kind |-> "MARKET_VOLATILITY", pct |-> ("AAPL" :> 12) @@ ("GOOGL" :> -12)]}

NewsEvent(event_type) == [event_type |-> event_type]

\* a simulation: the engine E, its ledger, and the backends its allocation
\* manager holds (the TradeBackend's stocks, the ProjectBackend)
Sim(L, stocks, PB, E) == [ledger |-> L, stocks |-> stocks, pb |-> PB, eng |-> E]

MarketOf(S, bonds) == [stocks |-> S.stocks, bonds |-> bonds]

\* the loop body of _apply_market_volatility for one ticker: a price that tests
\* false (zero) gets no entry in price_changes and stays; any other becomes the
\* larger of the floor and the price times (1 + its percentage)
new_price(current_price, pct, floor) ==
    IF current_price = 0 THEN current_price
    ELSE Max(floor, RoundDiv(current_price * (100 + pct), 100))

\* _apply_market_volatility on prices counted in units of 100.00: the floor of
\* 1.00 is below the unit, and is 0 in it
apply_market_volatility(stocks, pct) ==
    [t \in DOMAIN stocks |-> new_price(stocks[t], pct[t], 0)]

\* trigger_shock with a cooldown one tick shorter than min_ticks_between_shocks
trigger_shock_early(S, R, shock) ==
    IF S.eng.current_tick - S.eng.last_shock_tick < MinTicksBetweenShocks - 1
       \/ shock.kind = "NONE"
    THEN [S |-> S, news |-> <<>>, raised |-> FALSE]
    ELSE
    LET S2 == [S EXCEPT !.eng.last_shock_tick = S.eng.current_tick]
    IN  IF shock.kind \in {"RATE_HIKE", "RATE_CUT"}
        THEN IF R.debt_backend
             THEN [S |-> S2, news |-> <<>>, raised |-> TRUE]
             ELSE [S |-> S2, news |-> <<NewsEvent("RATE_SHOCK")>>, raised |-> FALSE]
        ELSE [S |-> [S2 EXCEPT !.stocks = apply_market_volatility(S.stocks, shock.pct)],
              news |-> <<NewsEvent("MARKET_VOLATILITY")>>, raised |-> FALSE]

\* trigger_shock for the outcome drawn: [S, news, raised]; raised is the
\* AttributeError of _apply_rate_shock calling apply_interest_rate_shock, which
\* DebtBackend does not define
trigger_shock(S, R, shock) ==
    IF S.eng.current_tick - S.eng.last_shock_tick < MinTicksBetweenShocks
    THEN [S |-> S, news |-> <<>>, raised |-> FALSE]
    ELSE IF shock.kind = "NONE"
    THEN [S |-> S, news |-> <<>>, raised |-> FALSE]
    ELSE
    LET S2 == [S EXCEPT !.eng.last_shock_tick = S.eng.current_tick]
    IN  IF shock.kind \in {"RATE_HIKE", "RATE_CUT"}
        THEN IF R.debt_backend
             THEN [S |-> S2, news |-> <<>>, raised |-> TRUE]
             ELSE [S |-> S2, news |-> <<NewsEvent("RATE_SHOCK")>>, raised |-> FALSE]
        ELSE [S |-> [S2 EXCEPT !.stocks = apply_market_volatility(S.stocks, shock.pct)],
              news |-> <<NewsEvent("MARKET_VOLATILITY")>>, raised |-> FALSE]

\* the project lifecycle step of _tick_main: [S, news]
project_lifecycle(S, R, bonds, draws) ==
    IF R.project_backend
    THEN The({[S |-> [S EXCEPT !.ledger = r.ledger, !.pb = r.pb], news |-> r.news] :
              r \in {ProjectBackend_tick(S.ledger, MarketOf(S, bonds), S.pb, draws)}})
    ELSE [S |-> S, news |-> <<>>]

\* the ledger allocation_manager.execute_action works on: self.ledger of the
\* manager, which is the engine's ledger until reset replaces the engine's
manager_ledger(S) ==
    IF S.eng.manager_ledger = <<>> THEN S.ledger ELSE S.eng.manager_ledger[1]

\* the action step of _tick_main: [S, failed_allocations]
process_action(S, R, bonds, action) ==
    IF action.given
    THEN The({[S |-> IF S.eng.manager_ledger = <<>>
                     THEN [S EXCEPT !.ledger = W.ledger, !.pb = W.pb]
                     ELSE [S EXCEPT !.eng.manager_ledger = <<W.ledger>>, !.pb = W.pb],
               failed_allocations |-> W.failed_allocations] :
              W \in {execute_action(R, manager_ledger(S), MarketOf(S, bonds), S.pb,
                                    action.allocations)}})
    ELSE [S |-> S, failed_allocations |-> <<>>]

\* SimulationEngine.reset(initial_cash) of the simulation S: a new Ledger priced
\* by the manager's trade backend, the tick counter at 0, the NAV history
\* cleared; last_shock_tick, the backends and the manager's ledger stay
reset(S, initial_cash) ==
    [S EXCEPT !.ledger = NewLedger(initial_cash, "TradeBackend"),
              !.eng.current_tick = 0,
              !.eng.nav_history = <<>>,
              !.eng.manager_ledger = <<manager_ledger(S)>>]

\* _calculate_volatility_penalty: the NAVs the penalty is computed from, none when
\* it is zero for want of history; raised is the InvalidOperation of comparing
\* Decimal('NaN'), the standard deviation of returns over a NAV of zero
volatility_window(nav_history, current_nav) ==
    IF Len(nav_history) < 2
    THEN [window |-> <<>>, raised |-> FALSE]
    ELSE [window |-> Append(nav_history, current_nav),
          raised |-> \E i \in 1..Len(nav_history) : nav_history[i] = 0]

\* a calculate_reward that charges the risk-free return on the cash of the
\* ledger when there is no NAV in the history
calculate_reward_from_cash(S, bonds, action) ==
    LET current_nav == get_nav(S.ledger, MarketOf(S, bonds))
        h == S.eng.nav_history
        previous_nav == IF Len(h) > 0 THEN h[Len(h)] ELSE cash(S.ledger)
        vol == volatility_window(h, current_nav)
        appended == Append(h, current_nav)
    IN  IF vol.raised
        THEN [raised |-> TRUE, reward |-> <<>>, eng |-> S.eng]
        ELSE [raised |-> FALSE,
              reward |-> <<[delta_nav_adj |-> (current_nav - previous_nav)
                                                  - RoundDiv(previous_nav, 100),
                            window |-> vol.window,
                            cognition_cost |-> IF action.given
                                               THEN RoundDiv(action.cognition_cost, 100)
                                               ELSE 0]>>,
              eng |-> [S.eng EXCEPT !.nav_history =
                          IF Len(appended) > NavHistoryLen THEN Tail(appended)
                          ELSE appended]]

\* a calculate_reward that leaves the risk-free return out of the NAV change
calculate_reward_unadjusted(S, bonds, action) ==
    LET current_nav == get_nav(S.ledger, MarketOf(S, bonds))
        h == S.eng.nav_history
        vol == volatility_window(h, current_nav)
        appended == Append(h, current_nav)
    IN  IF vol.raised
        THEN [raised |-> TRUE, reward |-> <<>>, eng |-> S.eng]
        ELSE [raised |-> FALSE,
              reward |-> <<[delta_nav_adj |-> IF Len(h) > 0
                                              THEN current_nav - h[Len(h)]
                                              ELSE 0,
                            window |-> vol.window,
                            cognition_cost |-> IF action.given
                                               THEN RoundDiv(action.cognition_cost, 100)
                                               ELSE 0]>>,
              eng |-> [S.eng EXCEPT !.nav_history =
                          IF Len(appended) > NavHistoryLen THEN Tail(appended)
                          ELSE appended]]

\* calculate_reward: [raised, reward, eng]; the reward is given by its terms
calculate_reward(S, bonds, action) ==
    LET current_nav == get_nav(S.ledger, MarketOf(S, bonds))
        h == S.eng.nav_history
        delta_nav_adj ==
            IF Len(h) > 0
            THEN (current_nav - h[Len(h)]) - RoundDiv(h[Len(h)], 100)
            ELSE 0
        vol == volatility_window(h, current_nav)
        cognition_cost == IF action.given THEN RoundDiv(action.cognition_cost, 100) ELSE 0
        appended == Append(h, current_nav)
        kept == IF Len(appended) > NavHistoryLen THEN Tail(appended) ELSE appended
    IN  IF vol.raised
        THEN [raised |-> TRUE, reward |-> <<>>, eng |-> S.eng]
        ELSE [raised |-> FALSE,
              reward |-> <<[delta_nav_adj |-> delta_nav_adj, window |-> vol.window,
                            cognition_cost |-> cognition_cost]>>,
              eng |-> [S.eng EXCEPT !.nav_history = kept]]

\* the Observation of _tick_main, without the portfolio and the project list
\* (get_portfolio_holdings and get_available_projects of the same state)
Observation(S, bonds, news) ==
    [tick |-> S.eng.current_tick, cash |-> cash(S.ledger),
     nav |-> get_nav(S.ledger, MarketOf(S, bonds)), news |-> news]

\* what a tick that raised leaves behind
Raised(S) ==
    [S |-> S, raised |-> TRUE, obs |-> <<>>, reward |-> <<>>, terminated |-> FALSE,
     truncated |-> FALSE, failed_allocations |-> <<>>]

\* a _tick_main that terminates once the counter has passed 100
tick_reward_late(S, bonds, action, news, failed_allocations) ==
    The({IF rw.raised THEN Raised(S)
         ELSE [S |-> [S EXCEPT !.eng = rw.eng], raised |-> FALSE,
               obs |-> <<Observation(S, bonds, news)>>, reward |-> rw.reward,
               terminated |-> S.eng.current_tick > TerminationTick,
               truncated |-> FALSE,
               failed_allocations |-> failed_allocations] :
         rw \in {calculate_reward(S, bonds, action)}})

\* _tick_main from the reward on
tick_reward(S, bonds, action, news, failed_allocations) ==
    The({IF rw.raised THEN Raised(S)
         ELSE [S |-> [S EXCEPT !.eng = rw.eng], raised |-> FALSE,
               obs |-> <<Observation(S, bonds, news)>>, reward |-> rw.reward,
               terminated |-> S.eng.current_tick >= TerminationTick,
               truncated |-> FALSE,
               failed_allocations |-> failed_allocations] :
         rw \in {calculate_reward(S, bonds, action)}})

\* _tick_main from the action on
tick_action(S, R, bonds, action, news) ==
    The({tick_reward(ex.S, bonds, action, news, ex.failed_allocations) :
         ex \in {process_action(S, R, bonds, action)}})

\* a _tick_main that executes the action before the project lifecycle
tick_action_before_projects(S, R, bonds, action, draws, news) ==
    The({The({tick_reward(pt.S, bonds, action, news \o pt.news, ex.failed_allocations) :
              pt \in {project_lifecycle(ex.S, R, bonds, draws)}}) :
         ex \in {process_action(S, R, bonds, action)}})

\* _tick_main from the project lifecycle on
tick_projects(S, R, bonds, action, draws, news) ==
    The({tick_action(pt.S, R, bonds, action, news \o pt.news) :
         pt \in {project_lifecycle(S, R, bonds, draws)}})

\* SimulationEngine._tick_main: [S, raised, obs, reward, terminated,
\* failed_allocations]; obs and reward are <<>> or a one-element sequence
tick_main(S, R, bonds, action, shock, draws) ==
    The({IF sh.raised THEN Raised(sh.S)
         ELSE tick_projects(sh.S, R, bonds, action, draws, sh.news) :
         sh \in {trigger_shock([S EXCEPT !.eng.current_tick = @ + 1], R, shock)}})

-----------------------------------------------------------------------------
(* HODLBot (hodl_bot.py) and the engine's HODL comparison *)

\* Decimal('10000.00')
HodlCashThreshold == 1000000 * Cent

\* HODLBot.should_hodl
should_hodl(observation) ==
    \E i \in 1..Len(observation.news) :
        observation.news[i].event_type \in {"RATE_SHOCK", "MARKET_VOLATILITY"}

\* a get_action that holds only while the observation it is given reports a shock
get_action_while_shocked(is_hodling, observation) ==
    IF should_hodl(observation)
    THEN [is_hodling |-> TRUE, action |-> NoAction, raised |-> FALSE]
    ELSE IF /\ observation.tick <= 5
            /\ observation.cash > HodlCashThreshold
            /\ observation.tick = 1
    THEN IF observation.cash % (5 * Cent) # 0
         THEN [is_hodling |-> FALSE, action |-> NoAction, raised |-> TRUE]
         ELSE [is_hodling |-> FALSE,
               action |-> Action(<<EquityAlloc("AAPL", observation.cash \div 5)>>,
                                 50 * Cent),
               raised |-> FALSE]
    ELSE [is_hodling |-> FALSE, action |-> NoAction, raised |-> FALSE]

\* HODLBot.get_action: [is_hodling, action, raised]; raised is the ValidationError
\* of EquityAlloc for a usd of more than 2 decimal places, cash * 0.2 of a cash
\* that is not a multiple of 0.05
get_action(is_hodling, observation) ==
    LET hodling == is_hodling \/ should_hodl(observation)
    IN  IF hodling
        THEN [is_hodling |-> TRUE, action |-> NoAction, raised |-> FALSE]
        ELSE IF /\ observation.tick <= 5
                /\ observation.cash > HodlCashThreshold
                /\ observation.tick = 1
        THEN IF observation.cash % (5 * Cent) # 0
             THEN [is_hodling |-> FALSE, action |-> NoAction, raised |-> TRUE]
             ELSE [is_hodling |-> FALSE,
                   action |-> Action(<<EquityAlloc("AAPL", observation.cash \div 5)>>,
                                     50 * Cent),
                   raised |-> FALSE]
        ELSE [is_hodling |-> FALSE, action |-> NoAction, raised |-> FALSE]

\* _initialize_hodl_comparison: the HODL ledger and engine, and the bot
NewHodl(L) ==
    [ledger |-> NewLedger(cash(L), L.price_provider), eng |-> NewEngine(FALSE),
     is_hodling |-> FALSE]

\* _tick_hodl_bot(main_obs): the bot's action, then hodl_engine.tick on the HODL
\* ledger with the backends of the primary's allocation manager:
\* [hodl, stocks, pb, raised, obs]
tick_hodl_bot(H, main_obs, stocks, PB, R, bonds, shock, draws) ==
    The({IF g.raised
         THEN [hodl |-> H, stocks |-> stocks, pb |-> PB, raised |-> TRUE, obs |-> <<>>]
         ELSE The({[hodl |-> [ledger |-> t.S.ledger, eng |-> t.S.eng,
                              is_hodling |-> g.is_hodling],
                    stocks |-> t.S.stocks, pb |-> t.S.pb, raised |-> t.raised,
                    obs |-> t.obs] :
                   t \in {tick_main(Sim(H.ledger, stocks, PB, H.eng), R, bonds,
                                    g.action, shock, draws)}}) :
         g \in {get_action(H.is_hodling, main_obs)}})

\* AdaptabilityMeasurer.measurement_window
MeasurementWindow == 5

\* a record update_post_shock_performance marks complete one tick early
update_one_early(shock, tick, agent_nav, hodl_nav) ==
    IF shock.measurement_complete THEN shock
    ELSE LET ticks_since_shock == tick - shock.tick
         IN  IF 0 < ticks_since_shock /\ ticks_since_shock < MeasurementWindow
             THEN [shock EXCEPT !.agent_nav_history = Append(@, agent_nav),
                                !.hodl_nav_history = Append(@, hodl_nav)]
             ELSE IF ticks_since_shock >= MeasurementWindow
             THEN [shock EXCEPT !.measurement_complete = TRUE]
             ELSE shock

\* the body of update_post_shock_performance's loop for one shock record
update_one(shock, tick, agent_nav, hodl_nav) ==
    IF shock.measurement_complete THEN shock
    ELSE LET ticks_since_shock == tick - shock.tick
         IN  IF 0 < ticks_since_shock /\ ticks_since_shock <= MeasurementWindow
             THEN [shock EXCEPT !.agent_nav_history = Append(@, agent_nav),
                                !.hodl_nav_history = Append(@, hodl_nav)]
             ELSE IF ticks_since_shock > MeasurementWindow
             THEN [shock EXCEPT !.measurement_complete = TRUE]
             ELSE shock

\* AdaptabilityMeasurer.record_shock on the list shock_events
record_shock(shock_events, tick, shock_type, agent_nav, hodl_nav) ==
    Append(shock_events,
           [tick |-> tick, shock_type |-> shock_type,
            agent_nav_at_shock |-> agent_nav, hodl_nav_at_shock |-> hodl_nav,
            agent_nav_history |-> <<agent_nav>>, hodl_nav_history |-> <<hodl_nav>>,
            measurement_complete |-> FALSE])

\* AdaptabilityMeasurer.update_post_shock_performance on the list shock_events
update_post_shock_performance(shock_events, tick, agent_nav, hodl_nav) ==
    [i \in 1..Len(shock_events) |-> update_one(shock_events[i], tick, agent_nav, hodl_nav)]

\* the measurer after a _tick_main that returned obs: the shock of the tick, if
\* it gave a news event, is recorded, and every open record updated, with the
\* NAV of the observation and the NAV of the HODL ledger, which has not ticked
measured(shock_events, obs, hodl_nav) ==
    LET shocks == {i \in 1..Len(obs.news) :
                      obs.news[i].event_type \in {"RATE_SHOCK", "MARKET_VOLATILITY"}}
        recorded == IF shocks = {} THEN shock_events
                    ELSE record_shock(shock_events, obs.tick,
                                      obs.news[CHOOSE i \in shocks : TRUE].event_type,
                                      obs.nav, hodl_nav)
    IN  update_post_shock_performance(recorded, obs.tick, obs.nav, hodl_nav)

-----------------------------------------------------------------------------
(* The kernel driven directly, as its callers and tests drive it *)

MaxSteps == 4

InitialCash == 500 * Cent

\* TradeBackend.stocks as configured: AAPL at 2500.00, GOOGL at 15000.00
StockConfig == ("AAPL" :> 25) @@ ("GOOGL" :> 150)

\* DebtBackend.bonds as configured: current_price 1000.00
BondConfig == ("BOND-001" :> 10)

\* the same bond with its terms: face value 1000.00, coupon 2.5%, 10 years
DebtConfig == ("BOND-001" :> Bond(100000, 250, 10, 100000))

Market == [stocks |-> trade_backend, bonds |-> debt_backend]

\* the allocations an agent may put in an action, given the ledger it sees
Allocations(L) ==
    {EquityAlloc("GOOGL", 200 * Cent), EquityAlloc("GOOGL", 0 - Cent),
     EquityAlloc("AAPL", 100 * Cent), EquityAlloc("AAPL", 0 - 100 * Cent),
     EquityAlloc("AAPL", cash(L)), EquityAlloc("AAPL", 900 * Cent),
     EquityAlloc("GOOGL", 0 - 300 * Cent), EquityAlloc("NONE", 100 * Cent),
     ProjectAlloc("P-001", 200 * Cent), ProjectAlloc("P-002", 300 * Cent),
     ProjectAlloc("P-002", 900 * Cent), ProjectAlloc("P-404", 100 * Cent),
     BondAlloc("BOND-001", 100 * Cent), BondAlloc("BOND-001", 0 - 100 * Cent),
     BondAlloc("BOND-001", 900 * Cent), BondAlloc("BOND-404", 100 * Cent),
     CashAlloc(100 * Cent)}

\* one allocation of each class, to order in every way
Mixed ==
    {EquityAlloc("AAPL", 100 * Cent), EquityAlloc("GOOGL", 200 * Cent),
     ProjectAlloc("P-001", 200 * Cent), BondAlloc("BOND-001", 100 * Cent)}

\* an action of one allocation
Singles(L) == {<<a>> : a \in Allocations(L)}

\* the actions of two or three allocations of different classes, in every order
MixedBatches ==
    {<<a, b>> : a \in Mixed, b \in Mixed}
    \cup {<<a, b, c>> : a \in Mixed, b \in Mixed, c \in Mixed}

NoCall ==
    [op |-> "init", allocations |-> <<>>, ok |-> TRUE, failed_allocations |-> <<>>,
     calls |-> <<>>, news |-> <<>>, step |-> 0,
     raised |-> FALSE, obs |-> <<>>, reward |-> <<>>, hodl_obs |-> <<>>,
     cognition_cost |-> 0, terminated |-> FALSE, truncated |-> FALSE]

InitBackends ==
    /\ trade_backend = StockConfig
    /\ debt_backend = BondConfig
    /\ debt_book = NewDebtBackend(DebtConfig)
    /\ project_backend = NewProjectBackend
    /\ last_call = NoCall
    /\ audit = [net_usd |-> 0, trades_only |-> TRUE, made |-> <<>>, seen |-> {},
                acts |-> 0, resets |-> 0, shock_gap |-> 0]

\* no engine drives the kernel here
InitNoEngine ==
    /\ engine = NewEngine(FALSE)
    /\ hodl = NewHodl(ledger)
    /\ twin = [S |-> Sim(ledger, StockConfig, NewProjectBackend, NewEngine(FALSE)),
               raised |-> FALSE, reward |-> <<>>]

Init ==
    /\ \E pp \in {"PriceProvider", "TradeBackend"} : ledger = NewLedger(InitialCash, pp)
    /\ router = [project_backend |-> TRUE, debt_backend |-> TRUE]
    /\ InitBackends
    /\ InitNoEngine

\* the usd of the batch's equity and bond allocations that did not fail
RECURSIVE traded_usd(_, _)
traded_usd(allocations, W) ==
    IF allocations = <<>> THEN 0
    ELSE LET a == Head(allocations)
         IN  (IF /\ a.asset_type \in {"EQUITY", "BOND"}
                 /\ \A k \in 1..Len(W.failed_allocations) :
                        W.failed_allocations[k].allocation # a
              THEN a.usd ELSE 0)
             + traded_usd(Tail(allocations), W)

\* AllocationManager.execute_action(action) for an action of the given set
Route(batches) ==
    /\ last_call.step < MaxSteps
    /\ \E allocations \in batches :
        \E W \in {execute_action(router, ledger, Market, project_backend, allocations)} :
            /\ ledger' = W.ledger
            /\ project_backend' = W.pb
            /\ last_call' = [NoCall EXCEPT
                                !.op = "execute_action", !.allocations = allocations,
                                !.ok = (W.failed_allocations = <<>>),
                                !.failed_allocations = W.failed_allocations,
                                !.calls = W.calls,
                                !.step = last_call.step + 1]
            /\ audit' = [audit EXCEPT
                            !.net_usd = @ + traded_usd(allocations, W),
                            !.trades_only = @ /\ W.pb = project_backend]
    /\ UNCHANGED <<trade_backend, debt_backend, debt_book, router, engine, hodl, twin>>

Call_execute_action == Route(Singles(ledger))

\* ProjectBackend.tick(ledger)
Call_project_tick ==
    /\ last_call.step < MaxSteps
    /\ \E draws \in [Completing(project_backend) -> PayoutPcts] :
        \E r \in {ProjectBackend_tick(ledger, Market, project_backend, draws)} :
            /\ ledger' = r.ledger
            /\ project_backend' = r.pb
            /\ last_call' = [NoCall EXCEPT
                                !.op = "tick", !.news = r.news,
                                !.step = last_call.step + 1]
            /\ audit' = [audit EXCEPT !.trades_only = @ /\ r.ledger = ledger]
    /\ UNCHANGED <<trade_backend, debt_backend, debt_book, router, engine, hodl, twin>>

\* the (asset_type, identifier) pairs add_asset is called with: an equity, and
\* an instrument of a class the ledger has no branch for
AddedKeys == {<<"EQUITY", "AAPL">>, <<"CRYPTO", "BTC">>}

\* Ledger.add_asset called directly
Call_add_asset ==
    /\ last_call.step < MaxSteps
    /\ \E total_cost \in {100 * Cent, cash(ledger), cash(ledger) + Cent},
          key \in AddedKeys :
        \E r \in {add_asset(ledger, key[1], key[2], Unit, total_cost)} :
            /\ ledger' = r.ledger
            /\ last_call' = [NoCall EXCEPT
                                !.op = "add_asset",
                                !.allocations = <<[asset_type |-> key[1], id |-> key[2],
                                                   usd |-> total_cost]>>,
                                !.ok = r.ok,
                                !.step = last_call.step + 1]
            /\ audit' = [audit EXCEPT !.trades_only = FALSE]
    /\ UNCHANGED <<trade_backend, debt_backend, debt_book, project_backend, router, engine,
                   hodl, twin>>

Next == Call_execute_action \/ Call_project_tick \/ Call_add_asset

Spec == Init /\ [][Next]_vars

-----------------------------------------------------------------------------
(* The router given batches of several classes, under every configuration *)

MaxRouterSteps == 2

InitRouter ==
    /\ ledger = NewLedger(InitialCash, "PriceProvider")
    /\ router \in [project_backend : BOOLEAN, debt_backend : BOOLEAN]
    /\ InitBackends
    /\ InitNoEngine

Call_execute_batch == last_call.step < MaxRouterSteps /\ Route(MixedBatches)

NextRouter == Call_execute_batch

SpecRouter == InitRouter /\ [][NextRouter]_vars

-----------------------------------------------------------------------------
(* Properties of the ledger and the backends, checked under Spec *)

\* C1: after any sequence of buys, sells, project investments and lifecycle
\* ticks the cash balance is never negative, the stored balance as well as
\* the value the cash property returns
C1_CashNeverNegative == ledger._cash >= 0 /\ cash(ledger) >= 0

\* the step is a buy of more USD than the cash the ledger has before it
C2_BuyOverCash ==
    /\ last_call'.op \in {"add_asset", "execute_action"}
    /\ Len(last_call'.allocations) = 1
    /\ last_call'.allocations[1].asset_type \in {"EQUITY", "BOND", "PROJECT"}
    /\ last_call'.allocations[1].usd > cash(ledger)

\* C2: a buy whose USD amount exceeds the current cash returns false and
\* leaves cash and every position unchanged
C2_BuyOverCashRejected ==
    [][C2_BuyOverCash =>
          /\ ~last_call'.ok
          /\ ledger' = ledger
          /\ project_backend' = project_backend]_vars

\* a ledger that has bought something has just turned down a buy over its cash
C2_Witness ==
    /\ last_call.op \in {"add_asset", "execute_action"}
    /\ Len(last_call.allocations) = 1
    /\ last_call.allocations[1].asset_type \in {"EQUITY", "BOND", "PROJECT"}
    /\ last_call.allocations[1].usd > cash(ledger)
    /\ ~last_call.ok
    /\ ledger.assets # <<>>
    /\ cash(ledger) > 0

\* C3: over successful equity and bond buys and sells at unmoved prices,
\* cash before minus cash after, read through the cash property, is the sum
\* of the transacted USD amounts, buys positive and sells negative
C3_CashConservation ==
    audit.trades_only => InitialCash - cash(ledger) = audit.net_usd

\* C4: when a record's countdown reaches zero in ProjectBackend.tick, the net
\* change of the ledger's cash is the payout computed for the record
C4_CompletionCreditsPayout ==
    [][(last_call'.op = "tick" /\ Len(last_call'.news) = 1) =>
          cash(ledger') - cash(ledger) = last_call'.news[1].payout]_vars

C9_NavMatchesHoldings ==
    LET holdings == get_portfolio_holdings(ledger, Market)
    IN  get_nav(ledger, Market) =
            cash(ledger) + SeqSum([i \in 1..Len(holdings) |-> holdings[i].current_value])

\* the first half of C5, which holds: a record of a project of N weeks is
\* still counting down while fewer than N calls of ProjectBackend.tick have
\* followed its creation, and the call that reports a completion is the N-th,
\* reports it once and removes the record
ProjectCountdownExact ==
    /\ \A i \in 1..Len(project_backend.agent_investments) :
          LET inv == project_backend.agent_investments[i]
              N == ProjectConfig[inv.project_id].weeks_to_completion
          IN  /\ project_backend.tick_calls - inv.made_at < N
              /\ inv.weeks_remaining = N - (project_backend.tick_calls - inv.made_at)
    /\ \A j \in 1..Len(last_call.news) :
          LET n == last_call.news[j]
          IN  /\ n.made_at + ProjectConfig[n.project_id].weeks_to_completion
                     = project_backend.tick_calls
              /\ \A i \in 1..Len(project_backend.agent_investments) :
                     project_backend.agent_investments[i].serial # n.serial
              /\ \A k \in 1..Len(last_call.news) :
                     last_call.news[k].serial = n.serial => k = j

-----------------------------------------------------------------------------
(* Properties of the router, checked under SpecRouter *)

ClassRank(allocation) ==
    CASE allocation.asset_type = "EQUITY" -> 1
      [] allocation.asset_type = "PROJECT" -> 2
      [] allocation.asset_type = "BOND" -> 3
      [] OTHER -> 4

\* C10: execute_action makes its equity calls before its project calls and
\* its project calls before its bond calls, whatever the batch order, keeps
\* the batch order within a class, and calls once for every allocation whose
\* backend is attached
C10_ClassOrder ==
    LET b == last_call.allocations
        c == last_call.calls
    IN  /\ \A p, q \in 1..Len(c) :
               p < q => \/ ClassRank(b[c[p]]) < ClassRank(b[c[q]])
                        \/ ClassRank(b[c[p]]) = ClassRank(b[c[q]]) /\ c[p] < c[q]
        /\ \A i \in 1..Len(b) :
               Cardinality({p \in 1..Len(c) : c[p] = i}) =
                   IF \/ b[i].asset_type = "EQUITY"
                      \/ b[i].asset_type = "PROJECT" /\ router.project_backend
                      \/ b[i].asset_type = "BOND" /\ router.debt_backend
                   THEN 1 ELSE 0

\* a batch given as bond, project, equity was executed in the reverse order
C10_Witness ==
    /\ Len(last_call.allocations) = 3
    /\ last_call.allocations[1].asset_type = "BOND"
    /\ last_call.allocations[2].asset_type = "PROJECT"
    /\ last_call.allocations[3].asset_type = "EQUITY"
    /\ last_call.calls = <<3, 2, 1>>

-----------------------------------------------------------------------------
(* The engine driven tick by tick, with and without the HODL comparison *)

MaxTick == 6

\* the ticks the agent sends an action on, at most
MaxActs == 2

EngineInitialCash == 1000210 * Cent

\* the actions the agent chooses from: a project of 2 weeks, all cash into a
\* project of 3 weeks, an equity buy, an allocation that fails, or None
EngineActions ==
    {NoAction,
     Action(<<ProjectAlloc("P-001", 200 * Cent)>>, 1000 * Cent),
     Action(<<ProjectAlloc("P-002", EngineInitialCash)>>, 100 * Cent),
     Action(<<EquityAlloc("GOOGL", 101 * Cent)>>, 100 * Cent),
     Action(<<EquityAlloc("NONE", 100 * Cent)>>, 100 * Cent)}

\* the shock outcomes that make a difference to an engine about to tick
ShockDraws(E) ==
    IF (E.current_tick + 1) - E.last_shock_tick < MinTicksBetweenShocks
    THEN {NoShock} ELSE ShockOutcomes

InitEngine ==
    /\ ledger = NewLedger(EngineInitialCash, "PriceProvider")
    /\ router \in [project_backend : {TRUE}, debt_backend : BOOLEAN]
    /\ InitBackends
    /\ \E e \in BOOLEAN : engine = NewEngine(e)
    /\ hodl = NewHodl(ledger)
    /\ twin = [S |-> Sim(ledger, StockConfig, NewProjectBackend, NewEngine(FALSE)),
               raised |-> FALSE, reward |-> <<>>]

\* the completion news of an observation, as <<serial, tick call>> pairs
SeenIn(obs, step) ==
    IF obs = <<>> THEN {}
    ELSE {<<obs[1].news[i].serial, step>> :
             i \in {j \in 1..Len(obs[1].news) :
                       obs[1].news[j].event_type = "PROJECT_COMPLETION"}}

\* the records the action of tick call step appended to agent_investments: the
\* tick call they were made in and the weeks_to_completion of their project
MadeBy(PB, created_before, step) ==
    [k \in 1..(PB.created - created_before) |->
        [tick |-> step,
         weeks |-> ProjectConfig[PB.agent_investments[
                       Len(PB.agent_investments) - (PB.created - created_before) + k
                   ].project_id].weeks_to_completion]]

\* the state after SimulationEngine.tick: r is what _tick_main returned, h what
\* _tick_hodl_bot left, t the twin's _tick_main; the caller gets the observation
\* and the reward unless either raised
AfterTick(action, r, h, t) ==
    /\ ledger' = r.S.ledger
    /\ engine' = [r.S.eng EXCEPT
                     !.enable_hodl_comparison = engine.enable_hodl_comparison,
                     !.adaptability_measurer =
                         IF engine.enable_hodl_comparison /\ ~r.raised
                         THEN measured(@, r.obs[1],
                                       get_nav(hodl.ledger, [stocks |-> r.S.stocks,
                                                             bonds |-> debt_backend]))
                         ELSE @]
    /\ trade_backend' = h.stocks
    /\ project_backend' = h.pb
    /\ hodl' = h.hodl
    /\ twin' = [S |-> t.S, raised |-> t.raised, reward |-> t.reward]
    /\ last_call' = [NoCall EXCEPT
                        !.op = "engine.tick", !.allocations = action.allocations,
                        !.ok = (r.failed_allocations = <<>>),
                        !.failed_allocations = r.failed_allocations,
                        !.raised = r.raised \/ h.raised,
                        !.obs = IF h.raised THEN <<>> ELSE r.obs,
                        !.reward = IF h.raised THEN <<>> ELSE r.reward,
                        !.hodl_obs = h.obs,
                        !.cognition_cost = action.cognition_cost,
                        !.terminated = r.terminated,
                        !.truncated = r.truncated,
                        !.step = last_call.step + 1]
    /\ audit' = [audit EXCEPT
                    !.made = @ \o MadeBy(r.S.pb, project_backend.created, last_call.step + 1),
                    !.seen = @ \cup SeenIn(IF h.raised THEN <<>> ELSE r.obs,
                                            last_call.step + 1),
                    !.acts = @ + (IF action.given THEN 1 ELSE 0),
                    !.shock_gap = IF r.S.eng.last_shock_tick = engine.last_shock_tick
                                  THEN @
                                  ELSE Min(r.S.eng.current_tick - engine.last_shock_tick,
                                           MinTicksBetweenShocks + 1)]
    /\ UNCHANGED <<debt_backend, debt_book, router>>

\* SimulationEngine.tick(action)
Tick ==
    /\ last_call.step < MaxTick
    /\ \E action \in (IF audit.acts < MaxActs THEN EngineActions ELSE {NoAction}),
          shock \in ShockDraws(engine) :
        \E draws \in [Completing(project_backend) -> PayoutPcts] :
        \E r \in {tick_main(Sim(ledger, trade_backend, project_backend, engine),
                            router, debt_backend, action, shock, draws)} :
        \E t \in {tick_main(twin.S, router, debt_backend, action, shock,
                            [k \in Completing(twin.S.pb) |->
                                IF k \in DOMAIN draws THEN draws[k] ELSE 125])} :
            IF engine.enable_hodl_comparison /\ ~r.raised
            THEN \E hshock \in ShockDraws(hodl.eng) :
                 \E hdraws \in [Completing(r.S.pb) -> PayoutPcts] :
                 \E h \in {tick_hodl_bot(hodl, r.obs[1], r.S.stocks, r.S.pb, router,
                                         debt_backend, hshock, hdraws)} :
                     AfterTick(action, r, h, t)
            ELSE AfterTick(action, r,
                           [hodl |-> hodl, stocks |-> r.S.stocks, pb |-> r.S.pb,
                            raised |-> FALSE, obs |-> <<>>], t)

NextEngine == Tick

SpecEngine == InitEngine /\ [][NextEngine]_vars

-----------------------------------------------------------------------------
(* The engine driven tick by tick and reset between episodes *)

MaxResets == 1

\* the initial_cash reset is called with
ResetCash == {500 * Cent}

\* SimulationEngine.reset(initial_cash); the HODL engine, its ledger and its bot
\* are not touched
Call_reset ==
    /\ audit.resets < MaxResets
    /\ \E initial_cash \in ResetCash :
        \E S \in {reset(Sim(ledger, trade_backend, project_backend, engine), initial_cash)} :
            /\ ledger' = S.ledger
            /\ engine' = S.eng
            /\ twin' = [twin EXCEPT !.S = reset(twin.S, initial_cash)]
            /\ last_call' = [NoCall EXCEPT
                                !.op = "reset",
                                !.obs = <<Observation(S, debt_backend, <<>>)>>,
                                !.step = last_call.step]
    /\ audit' = [audit EXCEPT !.resets = @ + 1]
    /\ UNCHANGED <<trade_backend, debt_backend, debt_book, project_backend, router, hodl>>

NextReset == Tick \/ Call_reset

SpecReset == InitEngine /\ [][NextReset]_vars

-----------------------------------------------------------------------------
(* The engine ticked through a whole episode by an agent that sends no action *)

MaxLongTick == 102

\* the shocks drawn in the long run: none, or a change of rates (a market
\* volatility event moves the prices, which nothing here depends on); drawn at
\* every tick, trigger_shock decides whether the cooldown lets the draw count
RateShockDraws ==
    {NoShock, [kind |-> "RATE_HIKE", pct |-> <<>>], [kind |-> "RATE_CUT", pct |-> <<>>]}

InitLong ==
    /\ ledger = NewLedger(EngineInitialCash, "PriceProvider")
    /\ router \in [project_backend : {TRUE}, debt_backend : BOOLEAN]
    /\ InitBackends
    /\ engine = NewEngine(FALSE)
    /\ hodl = NewHodl(ledger)
    /\ twin = [S |-> Sim(ledger, StockConfig, NewProjectBackend, NewEngine(FALSE)),
               raised |-> FALSE, reward |-> <<>>]

\* SimulationEngine.tick(None)
TickIdle ==
    /\ last_call.step < MaxLongTick
    /\ \E shock \in RateShockDraws :
        \E r \in {tick_main(Sim(ledger, trade_backend, project_backend, engine),
                            router, debt_backend, NoAction, shock, <<>>)} :
            AfterTick(NoAction, r,
                      [hodl |-> hodl, stocks |-> r.S.stocks, pb |-> r.S.pb,
                       raised |-> FALSE, obs |-> <<>>],
                      [S |-> r.S, raised |-> r.raised, reward |-> r.reward])

NextLong == TickIdle

SpecLong == InitLong /\ [][NextLong]_vars

-----------------------------------------------------------------------------
(* Properties of the engine, checked under SpecEngine *)

\* C5: an investment in a project of N weeks completes at the N-th call of
\* ProjectBackend.tick after it was made; driven through the engine, its one
\* completion event is in the observation of the N-th engine tick after the
\* tick whose action made it, and in no other
C5_CompletionAtNthTick ==
    \A k \in 1..Len(audit.made) :
        LET due == audit.made[k].tick + audit.made[k].weeks
        IN  /\ \A e \in audit.seen : e[1] = k => e[2] = due
            /\ last_call.step >= due => <<k, due>> \in audit.seen

\* C6: with the same actions and the same random outcomes of the primary
\* engine, the primary ledger, the primary engine's tick counter and NAV
\* history, the reward, and the countdown of every project investment are the
\* same with enable_hodl_comparison true as with it false
C6_HodlLeavesPrimaryAlone ==
    engine.enable_hodl_comparison =>
        /\ ledger = twin.S.ledger
        /\ engine.current_tick = twin.S.eng.current_tick
        /\ engine.nav_history = twin.S.eng.nav_history
        /\ last_call.reward = twin.reward
        /\ project_backend.agent_investments = twin.S.pb.agent_investments

\* C7: with trade, project and debt backends attached, SimulationEngine.tick
\* returns an observation and a reward and never raises, whatever the action
\* and the shock outcome; stated for the engine without the HODL comparison
C7_TickNeverRaises ==
    (/\ last_call.op = "engine.tick"
     /\ router.project_backend /\ router.debt_backend
     /\ ~engine.enable_hodl_comparison) =>
        /\ ~last_call.raised
        /\ Len(last_call.obs) = 1
        /\ Len(last_call.reward) = 1

-----------------------------------------------------------------------------
(* The router given batches with items that fail and items that raise *)

MaxBatchSteps == 2

\* allocations that succeed, that are turned down, and a buy and a sell of one
\* cent of GOOGL: at 30000.00 a share the buy rounds to no share at all, and
\* selling from the position it leaves divides by its quantity
BatchPool ==
    {EquityAlloc("GOOGL", Cent), EquityAlloc("GOOGL", 0 - Cent),
     EquityAlloc("AAPL", 100 * Cent), EquityAlloc("AAPL", 900 * Cent),
     ProjectAlloc("P-001", 100 * Cent), BondAlloc("BOND-001", 100 * Cent)}

\* the actions of one to three different allocations of the pool, in every order
FailingBatches ==
    {<<a>> : a \in BatchPool}
    \cup {s \in BatchPool \X BatchPool : s[1] # s[2]}
    \cup {s \in BatchPool \X BatchPool \X BatchPool :
             s[1] # s[2] /\ s[1] # s[3] /\ s[2] # s[3]}

\* a buy followed at once by the sale of the same amount of the same instrument
RoundTrip(a) == <<a, [a EXCEPT !.usd = 0 - a.usd]>>

RoundTrips ==
    {RoundTrip(a) : a \in {EquityAlloc("AAPL", 100 * Cent), EquityAlloc("GOOGL", 200 * Cent),
                           BondAlloc("BOND-001", 100 * Cent)}}

\* the TradeBackend as configured, or after update_prices({'GOOGL': 30000.00})
InitBatch ==
    /\ ledger = NewLedger(InitialCash, "PriceProvider")
    /\ router = [project_backend |-> TRUE, debt_backend |-> TRUE]
    /\ \E price_changes \in {<<>>, "GOOGL" :> 300} :
           trade_backend = update_prices(StockConfig, price_changes)
    /\ debt_backend = BondConfig
    /\ debt_book = NewDebtBackend(DebtConfig)
    /\ project_backend = NewProjectBackend
    /\ last_call = NoCall
    /\ audit = [net_usd |-> 0, trades_only |-> TRUE, made |-> <<>>, seen |-> {},
                acts |-> 0, resets |-> 0, shock_gap |-> 0]
    /\ InitNoEngine

Call_execute_failing == last_call.step < MaxBatchSteps /\ Route(FailingBatches)

Call_execute_round_trip == last_call.step < MaxBatchSteps /\ Route(RoundTrips)

NextBatch == Call_execute_failing \/ Call_execute_round_trip

SpecBatch == InitBatch /\ [][NextBatch]_vars

-----------------------------------------------------------------------------
(* Properties of the router's error handling, checked under SpecBatch *)

\* allocation a is in the list of failures
Failed(failed_allocations, a) ==
    \E k \in 1..Len(failed_allocations) : failed_allocations[k].allocation = a

\* what an allocation that did not fail takes from the stored cash at the
\* prices of M: its usd for a buy or an investment, less the value of the
\* units sold for a sale
CashTaken(a, M) ==
    IF a.usd >= 0 THEN a.usd
    ELSE LET price == IF a.asset_type = "EQUITY" THEN M.stocks[a.id] ELSE M.bonds[a.id]
         IN  0 - RoundDiv(0 - a.usd, price) * price

RECURSIVE CashTakenBy(_, _, _)
CashTakenBy(allocations, failed_allocations, M) ==
    IF allocations = <<>> THEN 0
    ELSE (IF Failed(failed_allocations, Head(allocations)) THEN 0
          ELSE CashTaken(Head(allocations), M))
         + CashTakenBy(Tail(allocations), failed_allocations, M)

-----------------------------------------------------------------------------
(* Properties of the router under every configuration, checked under SpecRouter *)

\* C12: whichever backends the router has, every equity, project and bond
\* allocation of the batch (all of them buys here) either is in the list
\* execute_action returns or has its position in the ledger, so that an empty
\* list means the whole batch was applied
C12_AppliedOrReported ==
    last_call.op = "execute_action" =>
        \A i \in 1..Len(last_call.allocations) :
            LET a == last_call.allocations[i]
            IN  a.asset_type \in {"EQUITY", "PROJECT", "BOND"} =>
                    \/ Failed(last_call.failed_allocations, a)
                    \/ find_asset(ledger, a.asset_type, a.id) # 0

-----------------------------------------------------------------------------
(* The DebtBackend under interest-rate updates *)

MaxRateUpdates == 3

\* the bonds of the default catalogue (config_loader.py): 10 years at 2.5% priced
\* 980.00, 3 years at 6.5% priced 950.00, 15 years at 1.5% priced 1050.00
DefaultBonds ==
    ("BOND-001" :> Bond(100000, 250, 10, 98000))
    @@ ("BOND-004" :> Bond(100000, 650, 3, 95000))
    @@ ("BOND-005" :> Bond(100000, 150, 15, 105000))

\* the economic_data update_interest_rates is given: no rate, None, or a rate of
\* -30%, 0%, 2%, 4.5%, 10% or 23%
EconomicData ==
    {<<>>, "interest_rate" :> <<>>}
    \cup {"interest_rate" :> <<r>> : r \in {0 - 3000, 0, 200, 450, 1000, 2300}}

InitDebt ==
    /\ ledger = NewLedger(InitialCash, "PriceProvider")
    /\ router = [project_backend |-> TRUE, debt_backend |-> TRUE]
    /\ trade_backend = StockConfig
    /\ debt_book = NewDebtBackend(DefaultBonds)
    /\ debt_backend = get_bond_prices(debt_book)
    /\ project_backend = NewProjectBackend
    /\ last_call = NoCall
    /\ audit = [net_usd |-> 0, trades_only |-> TRUE, made |-> <<>>, seen |-> {},
                acts |-> 0, resets |-> 0, shock_gap |-> 0]
    /\ InitNoEngine

\* DebtBackend.update_interest_rates(economic_data)
Call_update_interest_rates ==
    /\ last_call.step < MaxRateUpdates
    /\ \E economic_data \in EconomicData :
        \E DB \in {update_interest_rates(debt_book, economic_data)} :
            /\ debt_book' = DB
            /\ debt_backend' = get_bond_prices(DB)
            /\ last_call' = [NoCall EXCEPT
                                !.op = "update_interest_rates",
                                !.step = last_call.step + 1]
    /\ UNCHANGED <<ledger, trade_backend, project_backend, router, engine, hodl, twin,
                   audit>>

NextDebt == Call_update_interest_rates

SpecDebt == InitDebt /\ [][NextDebt]_vars

-----------------------------------------------------------------------------
(* Properties of the bond prices, checked under SpecDebt *)

\* C13: after any sequence of interest-rate updates every bond's current price
\* is at least 0.1 times and at most 2.0 times its face value
C13_BondPriceBounds ==
    \A b \in DOMAIN debt_book.bonds :
        /\ 10 * debt_book.bonds[b].current_price >= debt_book.bonds[b].face_value
        /\ debt_book.bonds[b].current_price <= 2 * debt_book.bonds[b].face_value

\* a cut to -30% and the hike to 23% after it have driven all three bonds to
\* the lower bound
C13_Witness ==
    /\ last_call.op = "update_interest_rates"
    /\ last_call.step = 2
    /\ debt_book.base_interest_rate = 2300
    /\ 10 * debt_book.bonds["BOND-001"].current_price = debt_book.bonds["BOND-001"].face_value
    /\ 10 * debt_book.bonds["BOND-005"].current_price = debt_book.bonds["BOND-005"].face_value
    /\ 10 * debt_book.bonds["BOND-004"].current_price = debt_book.bonds["BOND-004"].face_value

\* C14: after any sequence of interest-rate updates every bond whose price is
\* not zero has a yield to maturity above zero
C14_YtmPositive ==
    \A b \in DOMAIN debt_book.bonds :
        debt_book.bonds[b].current_price # 0 => debt_book.bonds[b].yield_to_maturity > 0

-----------------------------------------------------------------------------
(* Properties of project funding, checked under Spec *)

\* the step is a single project allocation asking for more than the project's
\* remaining funding, with the cash to pay what it asks for
C15_OverFunding ==
    /\ last_call'.op = "execute_action"
    /\ Len(last_call'.allocations) = 1
    /\ last_call'.allocations[1].asset_type = "PROJECT"
    /\ last_call'.allocations[1].id \in DOMAIN project_backend.remaining_funding
    /\ project_backend.remaining_funding[last_call'.allocations[1].id] > 0
    /\ last_call'.allocations[1].usd
           > project_backend.remaining_funding[last_call'.allocations[1].id]
    /\ cash(ledger) >= last_call'.allocations[1].usd

\* C15: a project allocation asking for more than the remaining funding, with
\* the cash for it, succeeds and commits the remaining funding exactly: cash
\* falls by it, the new record's amount_invested is it, and remaining_funding
\* is 0 afterwards; no remaining_funding is ever negative
C15_FundingCap ==
    [][/\ C15_OverFunding =>
              LET id == last_call'.allocations[1].id
                  remaining == project_backend.remaining_funding[id]
                  records == project_backend'.agent_investments
              IN  /\ last_call'.ok
                  /\ cash(ledger) - cash(ledger') = remaining
                  /\ Len(records) = Len(project_backend.agent_investments) + 1
                  /\ records[Len(records)].project_id = id
                  /\ records[Len(records)].amount_invested = remaining
                  /\ project_backend'.remaining_funding[id] = 0
       /\ \A p \in DOMAIN project_backend'.remaining_funding :
              project_backend'.remaining_funding[p] >= 0]_vars

\* 2.00 asked of a project that had 1.00 left to fund: 1.00 was invested
C15_Witness ==
    /\ last_call.op = "execute_action"
    /\ last_call.allocations = <<ProjectAlloc("P-001", 200 * Cent)>>
    /\ last_call.ok
    /\ project_backend.remaining_funding["P-001"] = 0
    /\ Len(project_backend.agent_investments) = 2
    /\ project_backend.agent_investments[2].amount_invested = 100 * Cent
    /\ cash(ledger) = InitialCash - 300 * Cent

\* C16: get_available_projects returns a project exactly when its
\* remaining_funding is above 0, and a project whose remaining_funding has
\* reached 0 is not returned after any later step, the completion of its
\* investments included
C16_FundedProjectStaysUnavailable ==
    [][\A p \in DOMAIN ProjectConfig :
          /\ p \in get_available_projects(project_backend')
                 <=> project_backend'.remaining_funding[p] > 0
          /\ project_backend.remaining_funding[p] = 0
                 => p \notin get_available_projects(project_backend')]_vars

\* a fully funded project whose investments have all completed is not listed
C16_Witness ==
    /\ last_call.op = "tick"
    /\ Len(last_call.news) = 2
    /\ project_backend.remaining_funding["P-001"] = 0
    /\ project_backend.agent_investments = <<>>
    /\ get_available_projects(project_backend) = {"P-002"}

-----------------------------------------------------------------------------
(* Properties of the ledger's positions, checked under Spec *)

\* the step is a sale of an equity or a bond that succeeded
C17_Sale ==
    /\ last_call'.op = "execute_action"
    /\ Len(last_call'.allocations) = 1
    /\ last_call'.allocations[1].asset_type \in {"EQUITY", "BOND"}
    /\ last_call'.allocations[1].usd < 0
    /\ last_call'.ok

\* C17: a successful remove_asset of q units from a position of Q units and
\* cost basis B adds q times the market price to the stored cash, q * B / Q
\* when the provider has no price for it, and leaves a remainder of Q - q
\* units with cost basis B * (Q - q) / Q, to the last digit kept
C17_ProportionalCostBasis ==
    [][C17_Sale =>
          LET a == last_call'.allocations[1]
              price == IF a.asset_type = "EQUITY"
                       THEN trade_backend[a.id] ELSE debt_backend[a.id]
              live == a.asset_type = "EQUITY" \/ ledger.price_provider = "PriceProvider"
              q == RoundDiv(0 - a.usd, price)
              i == find_asset(ledger, a.asset_type, a.id)
              j == find_asset(ledger', a.asset_type, a.id)
          IN  /\ i # 0
              /\ q <= ledger.assets[i].quantity
              /\ ledger'._cash - ledger._cash =
                     IF live THEN q * price
                     ELSE MulDiv(ledger.assets[i].cost_basis, q, ledger.assets[i].quantity)
              /\ IF ledger.assets[i].quantity - q <= Epsilon THEN j = 0
                 ELSE /\ j # 0
                      /\ ledger'.assets[j].quantity = ledger.assets[i].quantity - q
                      /\ Abs(ledger'.assets[j].cost_basis
                                 - MulDiv(ledger.assets[i].cost_basis,
                                          ledger.assets[i].quantity - q,
                                          ledger.assets[i].quantity)) <= 1]_vars

\* half of a bond position bought in two buys was sold by a ledger whose
\* provider prices no bonds: half of the cost basis is left
C17_Witness ==
    /\ last_call.op = "execute_action"
    /\ last_call.allocations = <<BondAlloc("BOND-001", 0 - 100 * Cent)>>
    /\ last_call.ok
    /\ ledger.price_provider = "TradeBackend"
    /\ ledger.assets = <<Asset("BOND", "BOND-001", 1000, 100 * Cent)>>
    /\ ledger._cash = InitialCash - 100 * Cent

\* the positions of a ledger for one (asset type, identifier)
PositionsOf(L, asset_type, identifier) ==
    {i \in 1..Len(L.assets) :
        L.assets[i].asset_type = asset_type /\ L.assets[i].identifier = identifier}

\* the additions the second of two add_asset calls is drawn from: <<quantity,
\* total_cost>>
SecondAdds == {<<Unit, 100 * Cent>>, <<250000, 50 * Cent>>, <<3 * Unit, Cent>>}

\* C18: a successful add_asset to a key leaves one position for the key, its
\* quantity and cost basis raised by the addition, and a second successful
\* add_asset to the same key leaves one position holding the sums, the same
\* ledger whichever of the two additions is made first
C18_MergeCommutes ==
    [][(last_call'.op = "add_asset" /\ last_call'.ok) =>
          LET total_cost == last_call'.allocations[1].usd
              key == <<last_call'.allocations[1].asset_type, last_call'.allocations[1].id>>
              i == find_asset(ledger, key[1], key[2])
              Q == IF i = 0 THEN 0 ELSE ledger.assets[i].quantity
              B == IF i = 0 THEN 0 ELSE ledger.assets[i].cost_basis
              j == find_asset(ledger', key[1], key[2])
          IN  /\ Cardinality(PositionsOf(ledger', key[1], key[2])) = 1
              /\ ledger'.assets[j].quantity = Q + Unit
              /\ ledger'.assets[j].cost_basis = B + total_cost
              /\ ledger'._cash = ledger._cash - total_cost
              /\ \A second \in SecondAdds :
                     LET then2 == add_asset(ledger', key[1], key[2], second[1], second[2])
                         first2 == add_asset(ledger, key[1], key[2], second[1], second[2])
                         then1 == add_asset(first2.ledger, key[1], key[2], Unit, total_cost)
                         k == find_asset(then2.ledger, key[1], key[2])
                     IN  (then2.ok /\ first2.ok /\ then1.ok) =>
                             /\ then2.ledger = then1.ledger
                             /\ Cardinality(PositionsOf(then2.ledger, key[1], key[2])) = 1
                             /\ then2.ledger.assets[k].quantity = Q + Unit + second[1]
                             /\ then2.ledger.assets[k].cost_basis
                                    = B + total_cost + second[2]]_vars

\* two add_asset calls to one key, of 1.00 and of the 4.00 left, made one
\* position of two units that cost 5.00
C18_Witness ==
    /\ last_call.op = "add_asset"
    /\ last_call.ok
    /\ last_call.step = 2
    /\ ledger.assets = <<Asset("EQUITY", "AAPL", 2 * Unit, InitialCash)>>
    /\ ledger._cash = 0

-----------------------------------------------------------------------------
(* Properties of a buy and the sale after it, checked under SpecBatch *)

\* C19: an equity or bond buy of usd followed at once by the sale of the same
\* usd at the same price, made with the cash for the buy by a ledger without
\* a position in the instrument: both succeed, the cash property is back at
\* its value before the buy and no position in the instrument is left
C19_RoundTripRestoresCash ==
    [][(/\ last_call'.op = "execute_action"
        /\ last_call'.allocations \in RoundTrips
        /\ cash(ledger) >= last_call'.allocations[1].usd
        /\ find_asset(ledger, last_call'.allocations[1].asset_type,
                      last_call'.allocations[1].id) = 0) =>
          /\ last_call'.failed_allocations = <<>>
          /\ cash(ledger') = cash(ledger)
          /\ find_asset(ledger', last_call'.allocations[1].asset_type,
                        last_call'.allocations[1].id) = 0]_vars

-----------------------------------------------------------------------------
(* Properties of an equity buy, checked under SpecBatch *)

\* a call of one equity buy that succeeded
C20_Buy ==
    /\ last_call'.op = "execute_action"
    /\ Len(last_call'.allocations) = 1
    /\ last_call'.allocations[1].asset_type = "EQUITY"
    /\ last_call'.allocations[1].usd > 0
    /\ last_call'.ok

\* C20: a successful equity buy of usd at price p leaves one position for the
\* ticker, its quantity raised by the multiple of 0.000001 nearest to usd / p
\* and its cost basis raised by usd, and the cash the ledger reports is lower
\* by exactly usd
C20_BuyEffect ==
    [][C20_Buy =>
          LET a == last_call'.allocations[1]
              p == trade_backend[a.id]
              i == find_asset(ledger, "EQUITY", a.id)
              j == find_asset(ledger', "EQUITY", a.id)
              Q == IF i = 0 THEN 0 ELSE ledger.assets[i].quantity
              B == IF i = 0 THEN 0 ELSE ledger.assets[i].cost_basis
          IN  /\ j # 0
              /\ 2 * Abs((ledger'.assets[j].quantity - Q) * p - a.usd) <= p
              /\ ledger'.assets[j].cost_basis = B + a.usd
              /\ cash(ledger') = cash(ledger) - a.usd]_vars

-----------------------------------------------------------------------------
(* Properties of rejected allocations, checked under Spec *)

\* the step is a call for one allocation that breaks a business rule of its
\* backend: an identifier the backend does not know, a sale from a position the
\* ledger does not hold or holds less of, a project that needs no more funding
C21_Rejected ==
    /\ last_call'.op = "execute_action"
    /\ Len(last_call'.allocations) = 1
    /\ LET a == last_call'.allocations[1]
           prices == IF a.asset_type = "EQUITY" THEN trade_backend ELSE debt_backend
           i == find_asset(ledger, a.asset_type, a.id)
       IN  \/ /\ a.asset_type \in {"EQUITY", "BOND"}
              /\ a.id \notin DOMAIN prices
           \/ /\ a.asset_type \in {"EQUITY", "BOND"}
              /\ a.id \in DOMAIN prices
              /\ a.usd < 0
              /\ \/ i = 0
                 \/ ledger.assets[i].quantity < RoundDiv(0 - a.usd, prices[a.id])
           \/ /\ a.asset_type = "PROJECT"
              /\ \/ a.id \notin DOMAIN project_backend.remaining_funding
                 \/ project_backend.remaining_funding[a.id] = 0

\* C21: an allocation its backend rejects for a business rule comes back as
\* false, not as an exception, and leaves the ledger's cash and positions,
\* every project's remaining_funding and the investment records as they were
C21_RejectionChangesNothing ==
    [][C21_Rejected =>
          /\ Len(last_call'.failed_allocations) = 1
          /\ last_call'.failed_allocations[1].reason \in
                 {"Trade execution failed", "Project investment failed",
                  "Bond transaction failed"}
          /\ ledger' = ledger
          /\ project_backend'.remaining_funding = project_backend.remaining_funding
          /\ project_backend'.agent_investments = project_backend.agent_investments]_vars

\* a sale of 3.00 of GOOGL from a position bought for 2.00 was rejected, the
\* position kept
C21_Witness ==
    /\ last_call.op = "execute_action"
    /\ last_call.allocations = <<EquityAlloc("GOOGL", 0 - 300 * Cent)>>
    /\ ~last_call.ok
    /\ \E i \in 1..Len(ledger.assets) :
          /\ ledger.assets[i].identifier = "GOOGL"
          /\ ledger.assets[i].quantity > 0
          /\ ledger.assets[i].quantity < RoundDiv(300 * Cent, trade_backend["GOOGL"])

-----------------------------------------------------------------------------
(* Properties of the reward, checked under SpecReset and SpecEngine *)

\* the step is a call of SimulationEngine.tick that returned
Returned == last_call'.op = "engine.tick" /\ ~last_call'.raised

\* kappa_cost times the cognition cost the tick's action was given with
CognitionCharge == last_call'.cognition_cost \div 100

\* C22: the tick an engine makes with an empty NAV history, the first after
\* its construction or after reset, returns as reward minus kappa_cost times the
\* action's cognition_cost, nothing for the NAV and nothing for volatility,
\* whatever the action did; without an action the reward is 0
C22_FirstTickReward ==
    [][(Returned /\ engine.nav_history = <<>>) =>
          /\ last_call'.reward = <<[delta_nav_adj |-> 0, window |-> <<>>,
                                    cognition_cost |-> CognitionCharge]>>
          /\ (last_call'.allocations = <<>> => CognitionCharge = 0)]_vars

\* the first tick of an engine invested 2.00 in a project with a cognition cost
\* of 10.00: the NAV fell by 2.00 and the reward is -0.10
C22_Witness ==
    /\ last_call.op = "engine.tick"
    /\ engine.current_tick = 1
    /\ last_call.allocations = <<ProjectAlloc("P-001", 200 * Cent)>>
    /\ last_call.ok
    /\ last_call.obs # <<>>
    /\ last_call.obs[1].nav = EngineInitialCash - 200 * Cent
    /\ last_call.reward = <<[delta_nav_adj |-> 0, window |-> <<>>,
                             cognition_cost |-> 10 * Cent]>>

\* the volatility penalty of a reward is zero: fewer than two NAVs in the
\* history, or a window of equal NAVs, whose returns have no deviation
ZeroPenalty(window) ==
    \/ window = <<>>
    \/ \A i \in 1..Len(window) : window[i] = window[1] /\ window[i] > 0

-----------------------------------------------------------------------------
(* Properties of a whole episode, checked under SpecLong *)

\* C24: a tick that returns reports terminated exactly when the tick counter,
\* after its increment, is 100 or more, the 100th tick being the first, and
\* reports truncated as false always
C24_TerminatedAtBudget ==
    (last_call.op = "engine.tick" /\ ~last_call.raised) =>
        /\ last_call.terminated = (engine.current_tick >= 100)
        /\ last_call.terminated = (last_call.step >= 100)
        /\ ~last_call.truncated

\* the 100th tick has returned terminated, and not truncated
C24_Witness ==
    /\ last_call.op = "engine.tick"
    /\ ~last_call.raised
    /\ engine.current_tick = 100
    /\ last_call.step = 100
    /\ last_call.terminated
    /\ ~last_call.truncated

-----------------------------------------------------------------------------
(* Properties of reset, checked under SpecReset *)

\* C25: after reset(c) the engine is in the state of an engine just
\* constructed with initial cash c: tick counter 0, a ledger of cash c without
\* positions, an empty NAV history and the shock cooldown counted from tick 0
C25_ResetIsFresh ==
    last_call.op = "reset" =>
        /\ engine.current_tick = NewEngine(FALSE).current_tick
        /\ engine.nav_history = NewEngine(FALSE).nav_history
        /\ engine.last_shock_tick = NewEngine(FALSE).last_shock_tick
        /\ \E c \in ResetCash :
              /\ ledger._cash = c
              /\ ledger.assets = <<>>
              /\ last_call.obs = <<[tick |-> 0, cash |-> c, nav |-> c, news |-> <<>>]>>

-----------------------------------------------------------------------------
(* Properties of instrument classes, checked under Spec *)

\* C26: an add_asset for an asset type other than EQUITY, BOND and PROJECT
\* raises and changes nothing, so that no ledger get_nav runs on holds a position
\* of such a type
C26_UnknownClassIsFatal ==
    [][(/\ last_call'.op = "add_asset"
        /\ last_call'.allocations[1].asset_type \notin {"EQUITY", "BOND", "PROJECT"}) =>
          /\ last_call'.raised
          /\ ledger' = ledger
          /\ \A i \in 1..Len(ledger'.assets) :
                 ledger'.assets[i].asset_type \in {"EQUITY", "BOND", "PROJECT"}]_vars

-----------------------------------------------------------------------------
(* Properties of shocks, checked under SpecEngine and SpecLong *)

\* the step is a tick of an engine with a debt backend whose trigger_shock
\* applied a rate shock: the cooldown marker is the tick's number and no equity
\* price moved, as one would under a volatility shock
C27_RateShock ==
    /\ last_call'.op = "engine.tick"
    /\ router.debt_backend
    /\ engine'.last_shock_tick = engine'.current_tick
    /\ trade_backend' = trade_backend

\* C27: a rate shock of b basis points, 25 to 75 up for a hike and down for a
\* cut, applied with a debt backend attached moves the backend's base interest
\* rate by b basis points and reprices every bond as update_interest_rates does
\* for the new rate
C27_RateShockReprices ==
    [][C27_RateShock =>
          /\ ~last_call'.raised
          /\ \E b \in (25..75) \cup {0 - c : c \in 25..75} :
                debt_book' = update_interest_rates(debt_book,
                                 "interest_rate" :> <<debt_book.base_interest_rate + b>>)]_vars

-----------------------------------------------------------------------------
(* Properties of the order of a tick's steps, checked under SpecEngine *)

\* the payouts of the completions a tick's observation reports
RECURSIVE PayoutsIn(_)
PayoutsIn(news) ==
    IF news = <<>> THEN 0
    ELSE (IF Head(news).event_type = "PROJECT_COMPLETION" THEN Head(news).payout ELSE 0)
         + PayoutsIn(Tail(news))

-----------------------------------------------------------------------------
(* The cooldown between shocks, checked under SpecLong *)

\* the shock events among the news of an observation
ShockNews(obs) ==
    {i \in 1..Len(obs.news) : obs.news[i].event_type \in {"RATE_SHOCK", "MARKET_VOLATILITY"}}

\* C29: in one engine a tick applies at most one shock, and applies none at a
\* tick t with t - last_shock_tick < min_ticks_between_shocks (5, with
\* last_shock_tick starting at 0): a tick either leaves last_shock_tick or sets
\* it to its own number t, the latter only with t at least 5 and at least 5
\* after the shock before; an observation carries at most one shock event, and
\* only that of a tick that set last_shock_tick
C29_ShockCooldown ==
    [][last_call'.op = "engine.tick" =>
          LET t == engine'.current_tick
              applied == engine'.last_shock_tick # engine.last_shock_tick
          IN  /\ t = engine.current_tick + 1
              /\ engine'.last_shock_tick \in {engine.last_shock_tick, t}
              /\ applied => /\ t - engine.last_shock_tick >= MinTicksBetweenShocks
                            /\ t >= MinTicksBetweenShocks
              /\ Returned =>
                    /\ Cardinality(ShockNews(last_call'.obs[1])) <= 1
                    /\ ShockNews(last_call'.obs[1]) # {} => applied]_vars

\* tick 10 returned with a rate shock, 5 ticks after the shock of tick 5
C29_Witness ==
    /\ last_call.op = "engine.tick"
    /\ ~last_call.raised
    /\ engine.current_tick = 10
    /\ engine.last_shock_tick = 10
    /\ audit.shock_gap = MinTicksBetweenShocks
    /\ Cardinality(ShockNews(last_call.obs[1])) = 1


-----------------------------------------------------------------------------
(* The ProjectBackend given commitments and ticked, call by call *)

MaxProjectSteps == 6

\* the commitments made: a third or two thirds of what P-001 (2 weeks) requires,
\* or a third as much in P-002 (3 weeks)
ProjectCommitments ==
    {ProjectAlloc("P-001", 100 * Cent), ProjectAlloc("P-001", 200 * Cent),
     ProjectAlloc("P-002", 100 * Cent)}

\* ProjectBackend.execute_allocation(allocation, ledger)
Call_execute_allocation ==
    /\ last_call.step < MaxProjectSteps
    /\ \E allocation \in ProjectCommitments :
        \E r \in {ProjectBackend_execute_allocation(allocation, ledger, project_backend)} :
            /\ ledger' = r.ledger
            /\ project_backend' = r.pb
            /\ last_call' = [NoCall EXCEPT
                                !.op = "execute_allocation",
                                !.allocations = <<allocation>>,
                                !.ok = r.ok,
                                !.step = last_call.step + 1]
    /\ UNCHANGED <<trade_backend, debt_backend, debt_book, router, engine, hodl, twin, audit>>

\* ProjectBackend.tick(ledger)
Call_tick ==
    /\ last_call.step < MaxProjectSteps
    /\ \E draws \in [Completing(project_backend) -> PayoutPcts] :
        \E r \in {ProjectBackend_tick(ledger, Market, project_backend, draws)} :
            /\ ledger' = r.ledger
            /\ project_backend' = r.pb
            /\ last_call' = [NoCall EXCEPT
                                !.op = "tick", !.news = r.news,
                                !.step = last_call.step + 1]
    /\ UNCHANGED <<trade_backend, debt_backend, debt_book, router, engine, hodl, twin, audit>>

NextProjects == Call_execute_allocation \/ Call_tick

SpecProjects == Init /\ [][NextProjects]_vars

-----------------------------------------------------------------------------
(* Properties of the project countdowns, checked under SpecProjects *)

\* the positions of the sequence whose element has the serial
WithSerial(records, serial) == {i \in 1..Len(records) : records[i].serial = serial}

\* C30: commitments to the same project made k calls of ProjectBackend.tick
\* apart each complete exactly weeks_to_completion calls after their own
\* creation, hence k calls apart: execute_allocation leaves every earlier record
\* as it is and appends a record with the project's whole countdown, and a call
\* of tick lowers every record's countdown by one, except that the call that is
\* the weeks_to_completion-th after a record's creation removes that record and
\* reports one completion event of its own for it
C30_IndependentCountdowns ==
    [][LET before == project_backend.agent_investments
           after == project_backend'.agent_investments
       IN  /\ last_call'.op = "execute_allocation" =>
                 /\ \A i \in 1..Len(before) : after[i] = before[i]
                 /\ Len(after) = Len(before) + (IF last_call'.ok THEN 1 ELSE 0)
                 /\ last_call'.ok =>
                       LET new == after[Len(after)]
                       IN  /\ new.project_id = last_call'.allocations[1].id
                           /\ new.weeks_remaining =
                                  ProjectConfig[new.project_id].weeks_to_completion
                           /\ WithSerial(before, new.serial) = {}
           /\ last_call'.op = "tick" =>
                 /\ project_backend'.tick_calls = project_backend.tick_calls + 1
                 /\ \A i \in 1..Len(before) :
                       LET inv == before[i]
                           due == inv.made_at
                                      + ProjectConfig[inv.project_id].weeks_to_completion
                           kept == WithSerial(after, inv.serial)
                           told == WithSerial(last_call'.news, inv.serial)
                       IN  IF project_backend'.tick_calls = due
                           THEN /\ kept = {}
                                /\ Cardinality(told) = 1
                                /\ \A j \in told :
                                       last_call'.news[j].project_id = inv.project_id
                           ELSE /\ project_backend'.tick_calls < due
                                /\ told = {}
                                /\ Cardinality(kept) = 1
                                /\ \A j \in kept :
                                       after[j] = [inv EXCEPT !.weeks_remaining = @ - 1]
                 /\ \A j \in 1..Len(last_call'.news) :
                       WithSerial(before, last_call'.news[j].serial) # {}]_vars

\* two commitments to P-001, and none to P-002, made one call of tick apart: the
\* third call of tick reports the completion of the second commitment, alone,
\* and leaves no record, the first commitment having completed a call earlier
C30_Witness ==
    /\ last_call.op = "tick"
    /\ project_backend.tick_calls = 3
    /\ project_backend.created = 2
    /\ project_backend.agent_investments = <<>>
    /\ project_backend.remaining_funding["P-001"] = 100 * Cent
    /\ project_backend.remaining_funding["P-002"] = ProjectConfig["P-002"].required_investment
    /\ Len(last_call.news) = 1
    /\ last_call.news[1].project_id = "P-001"
    /\ last_call.news[1].serial = 2
    /\ last_call.news[1].made_at = 1

-----------------------------------------------------------------------------
(* Properties of the positions a ledger holds, checked under SpecBatch *)

\* C31: every position held in the ledger has a quantity strictly greater than
\* 0.000001 after any operation: no position of quantity zero or less is kept,
\* and one whose quantity is 0.000001 or less is removed
C31_QuantityAboveEpsilon ==
    \A i \in 1..Len(ledger.assets) : ledger.assets[i].quantity > Epsilon

-----------------------------------------------------------------------------
(* Properties of the volatility window, checked under SpecLong *)

\* C32: the excess-volatility term of a tick's reward is computed from at most
\* 10 NAVs, the NAV of the tick included, and is zero (computed from nothing)
\* while the history holds fewer than two earlier NAVs
C32_WindowOfTen ==
    [][Returned =>
          /\ Len(last_call'.reward[1].window) <= NavHistoryLen
          /\ Len(engine.nav_history) < 2 => last_call'.reward[1].window = <<>>]_vars

-----------------------------------------------------------------------------
(* The TradeBackend repriced and shocked, its prices counted in money units
   (0.0001 USD) so that the floor of 1.00 can be told from the prices around it *)

MaxPriceSteps == 2

\* the catalogue of the TradeBackend in money units
StockPrices == ("AAPL" :> 15000 * Cent) @@ ("MSFT" :> 30000 * Cent)

\* the prices update_prices is called with: none, a cent, below, at and above
\* the floor
PricesSet == {0, Cent, 50 * Cent, 100 * Cent, 110 * Cent}

\* the percentages random.uniform(-0.15, 0.15) is taken to draw
VolatilityPcts == {-15, 0, 15}

\* _apply_market_volatility with the floor of 1.00
apply_market_volatility_floor(stocks, pct) ==
    update_prices(stocks, [t \in DOMAIN stocks |-> new_price(stocks[t], pct[t], 100 * Cent)])

InitPrices ==
    /\ ledger = NewLedger(InitialCash, "PriceProvider")
    /\ router = [project_backend |-> TRUE, debt_backend |-> TRUE]
    /\ trade_backend = StockPrices
    /\ debt_backend = BondConfig
    /\ debt_book = NewDebtBackend(DebtConfig)
    /\ project_backend = NewProjectBackend
    /\ last_call = NoCall
    /\ audit = [net_usd |-> 0, trades_only |-> TRUE, made |-> <<>>, seen |-> {},
                acts |-> 0, resets |-> 0, shock_gap |-> 0]
    /\ InitNoEngine

\* TradeBackend.update_prices(price_changes), the backend's prices in money units
Call_update_prices ==
    /\ last_call.step < MaxPriceSteps
    /\ \E t \in DOMAIN StockPrices, price \in PricesSet :
        /\ trade_backend' = update_prices(trade_backend, t :> price)
        /\ last_call' = [NoCall EXCEPT !.op = "update_prices", !.step = last_call.step + 1]
    /\ UNCHANGED <<ledger, debt_backend, debt_book, project_backend, router, engine, hodl,
                   twin, audit>>

\* SimulationEngine._apply_market_volatility()
Call_apply_market_volatility ==
    /\ last_call.step < MaxPriceSteps
    /\ \E pct \in [DOMAIN StockPrices -> VolatilityPcts] :
        /\ trade_backend' = apply_market_volatility_floor(trade_backend, pct)
        /\ last_call' = [NoCall EXCEPT
                            !.op = "apply_market_volatility",
                            !.news = <<NewsEvent("MARKET_VOLATILITY")>>,
                            !.step = last_call.step + 1]
    /\ UNCHANGED <<ledger, debt_backend, debt_book, project_backend, router, engine, hodl,
                   twin, audit>>

NextPrices == Call_update_prices \/ Call_apply_market_volatility

SpecPrices == InitPrices /\ [][NextPrices]_vars

-----------------------------------------------------------------------------
(* Properties of the floor of a volatility shock, checked under SpecPrices *)

\* C33: after a market-volatility shock every equity price of the trade backend
\* is at least 1.00, whatever the price before and the percentage drawn
C33_PriceFloor ==
    last_call.op = "apply_market_volatility" =>
        \A t \in DOMAIN trade_backend : trade_backend[t] >= 100 * Cent

-----------------------------------------------------------------------------
(* Properties of the HODL bot, checked under SpecEngine *)

\* C34: once HODLBot.get_action has been given an observation with a RATE_SHOCK
\* or MARKET_VOLATILITY news event, it returns no action for that observation
\* and for every later one: is_hodling, once true, is true after every step, and
\* the call of get_action of a tick whose observation reports a shock, or that
\* finds is_hodling true, returns None and leaves is_hodling true
C34_HodlIsForever ==
    [][/\ hodl.is_hodling => hodl'.is_hodling
       /\ (Returned /\ engine.enable_hodl_comparison) =>
             LET main_obs == last_call'.obs[1]
                 g == get_action(hodl.is_hodling, main_obs)
             IN  (hodl.is_hodling \/ should_hodl(main_obs)) =>
                     /\ g.action = NoAction
                     /\ ~g.raised
                     /\ g.is_hodling
                     /\ hodl'.is_hodling]_vars

\* the bot still holds at tick 6, whose observation reports no shock, after the
\* shock in the observation of tick 5
C34_Witness ==
    /\ last_call.op = "engine.tick"
    /\ ~last_call.raised
    /\ engine.enable_hodl_comparison
    /\ engine.last_shock_tick = 5
    /\ last_call.obs[1].tick = 6
    /\ ~should_hodl(last_call.obs[1])
    /\ hodl.is_hodling

-----------------------------------------------------------------------------
(* The AdaptabilityMeasurer called tick by tick, as _tick_main calls it, but
   for some ticks not at all *)

MaxMeasureTick == 9

MaxShockRecords == 2

\* the agent NAV the measurer is given at a tick, 1.00 more at every tick; the
\* HODL NAV is the initial cash
AgentNavAt(tick) == InitialCash + tick * 100 * Cent

\* audit.updated is the set of ticks update_post_shock_performance was called with
InitMeasurer ==
    /\ ledger = NewLedger(InitialCash, "PriceProvider")
    /\ router = [project_backend |-> TRUE, debt_backend |-> TRUE]
    /\ trade_backend = StockConfig
    /\ debt_backend = BondConfig
    /\ debt_book = NewDebtBackend(DebtConfig)
    /\ project_backend = NewProjectBackend
    /\ last_call = NoCall
    /\ audit = [net_usd |-> 0, trades_only |-> TRUE, made |-> <<>>, seen |-> {},
                acts |-> 0, resets |-> 0, shock_gap |-> 0, updated |-> {}]
    /\ engine = NewEngine(TRUE)
    /\ hodl = NewHodl(ledger)
    /\ twin = [S |-> Sim(ledger, StockConfig, NewProjectBackend, NewEngine(FALSE)),
               raised |-> FALSE, reward |-> <<>>]

\* AdaptabilityMeasurer.record_shock at the tick after the last one seen
Call_record_shock ==
    /\ engine.current_tick < MaxMeasureTick
    /\ Len(engine.adaptability_measurer) < MaxShockRecords
    /\ \E shock_type \in {"RATE_SHOCK", "MARKET_VOLATILITY"} :
        engine' = [engine EXCEPT
                      !.current_tick = @ + 1,
                      !.adaptability_measurer =
                          record_shock(@, engine.current_tick + 1, shock_type,
                                       AgentNavAt(engine.current_tick + 1), InitialCash)]
    /\ last_call' = [NoCall EXCEPT !.op = "record_shock", !.step = last_call.step + 1]
    /\ UNCHANGED <<ledger, trade_backend, debt_backend, debt_book, project_backend, router,
                   hodl, twin, audit>>

\* AdaptabilityMeasurer.update_post_shock_performance at the tick of the last
\* call, if that was record_shock, or at one of the next two ticks
Call_update_post_shock_performance ==
    \E tick \in (engine.current_tick..(engine.current_tick + 2)) \ audit.updated :
        /\ tick >= 1
        /\ tick <= MaxMeasureTick
        /\ engine' = [engine EXCEPT
                         !.current_tick = tick,
                         !.adaptability_measurer =
                             update_post_shock_performance(@, tick, AgentNavAt(tick),
                                                           InitialCash)]
        /\ audit' = [audit EXCEPT !.updated = @ \cup {tick}]
        /\ last_call' = [NoCall EXCEPT
                            !.op = "update_post_shock_performance",
                            !.step = last_call.step + 1]
        /\ UNCHANGED <<ledger, trade_backend, debt_backend, debt_book, project_backend,
                       router, hodl, twin>>

NextMeasurer == Call_record_shock \/ Call_update_post_shock_performance

SpecMeasurer == InitMeasurer /\ [][NextMeasurer]_vars

-----------------------------------------------------------------------------
(* Properties of the measurement window, checked under SpecMeasurer *)

\* C35: for a shock recorded at tick s the measurer appends one agent NAV and
\* one baseline NAV for each update at the ticks s+1 to s+5 and none for any
\* other; the measurement is complete exactly when an update with a tick
\* greater than s+5 has been made; and a complete record of a shock whose five
\* ticks were all updated holds 6 NAVs per side
C35_MeasurementWindow ==
    \A i \in 1..Len(engine.adaptability_measurer) :
        LET shock == engine.adaptability_measurer[i]
            s == shock.tick
            within == {t \in audit.updated : s < t /\ t <= s + MeasurementWindow}
            beyond == {t \in audit.updated : t > s + MeasurementWindow}
        IN  /\ Len(shock.agent_nav_history) = 1 + Cardinality(within)
            /\ Len(shock.hodl_nav_history) = 1 + Cardinality(within)
            /\ shock.measurement_complete <=> beyond # {}
            /\ (shock.measurement_complete /\ within = (s + 1)..(s + MeasurementWindow)) =>
                  /\ Len(shock.agent_nav_history) = 6
                  /\ Len(shock.hodl_nav_history) = 6

\* the shock of tick 1, updated at each of the ticks 2 to 6, is complete at the
\* update of tick 7 with 6 NAVs per side
C35_Witness ==
    /\ last_call.op = "update_post_shock_performance"
    /\ engine.current_tick = 7
    /\ Len(engine.adaptability_measurer) >= 1
    /\ engine.adaptability_measurer[1].tick = 1
    /\ engine.adaptability_measurer[1].measurement_complete
    /\ 2..7 \subseteq audit.updated
    /\ Len(engine.adaptability_measurer[1].agent_nav_history) = 6
    /\ Len(engine.adaptability_measurer[1].hodl_nav_history) = 6

-----------------------------------------------------------------------------
(* Properties of the PROJECT positions, checked under SpecEngine *)

\* the outstanding investment records of a project
RecordsOf(PB, project_id) ==
    {k \in 1..Len(PB.agent_investments) : PB.agent_investments[k].project_id = project_id}

\* C36: in a single engine that is not reset (no HODL engine beside it), after
\* any investments and ticks, the quantity of the ledger's PROJECT position of
\* each project is the number of the project's outstanding investment records,
\* 1.0 for each, and the ledger holds no PROJECT position of a project without
\* an outstanding record
C36_PositionCountsRecords ==
    ~engine.enable_hodl_comparison =>
        \A p \in DOMAIN ProjectConfig :
            LET i == find_asset(ledger, "PROJECT", p)
                n == Cardinality(RecordsOf(project_backend, p))
            IN  IF n = 0 THEN i = 0
                ELSE i # 0 /\ ledger.assets[i].quantity = n * Unit

\* a single engine's tick completed one of two commitments to P-001: one unit
\* of the position and one record are left
C36_Witness ==
    /\ ~engine.enable_hodl_comparison
    /\ last_call.op = "engine.tick"
    /\ ~last_call.raised
    /\ \E n \in 1..Len(last_call.obs[1].news) :
           /\ last_call.obs[1].news[n].event_type = "PROJECT_COMPLETION"
           /\ last_call.obs[1].news[n].project_id = "P-001"
    /\ Cardinality(RecordsOf(project_backend, "P-001")) = 1
    /\ find_asset(ledger, "PROJECT", "P-001") # 0
    /\ ledger.assets[find_asset(ledger, "PROJECT", "P-001")].quantity = Unit

\* the same with the HODL comparison enabled, where the HODL engine's tick of
\* the shared ProjectBackend ends countdowns on a ledger without the position
PositionCountsRecordsWithHodl ==
    engine.enable_hodl_comparison =>
        \A p \in DOMAIN ProjectConfig :
            LET i == find_asset(ledger, "PROJECT", p)
                n == Cardinality(RecordsOf(project_backend, p))
            IN  IF n = 0 THEN i = 0
                ELSE i # 0 /\ ledger.assets[i].quantity = n * Unit

-----------------------------------------------------------------------------
(* Properties of the PROJECT positions, checked under SpecProjects *)

\* the amounts invested of the records at the positions ks, summed
RECURSIVE InvestedIn(_, _)
InvestedIn(PB, ks) ==
    IF ks = {} THEN 0
    ELSE LET k == CHOOSE x \in ks : TRUE
         IN  PB.agent_investments[k].amount_invested + InvestedIn(PB, ks \ {k})

\* C37: after any investments and completions the cost basis of the PROJECT
\* position of a project is the sum of amount_invested over the project's
\* outstanding records, also when commitments of different amounts to one
\* project complete at different ticks
C37_CostBasisOfRecords ==
    \A p \in DOMAIN ProjectConfig :
        LET i == find_asset(ledger, "PROJECT", p)
            invested == InvestedIn(project_backend, RecordsOf(project_backend, p))
        IN  IF i = 0 THEN invested = 0
            ELSE ledger.assets[i].cost_basis = invested

-----------------------------------------------------------------------------
(* Properties of the completion payout, checked under SpecEngine *)

\* the ledger holds a PROJECT position
HoldsProject(L) == \E i \in 1..Len(L.assets) : L.assets[i].asset_type = "PROJECT"

\* C38: ProjectBackend.tick credits a completion payout only to a ledger that
\* holds the PROJECT position of the record that completed; the HODL ledger,
\* which makes no investment and sells nothing, holds no such position and so
\* is credited nothing by any tick: its cash never rises
C38_PayoutOnlyToHolder ==
    [][(last_call'.op = "engine.tick" /\ ~HoldsProject(hodl.ledger)) =>
          /\ ~HoldsProject(hodl'.ledger)
          /\ hodl'.ledger._cash <= hodl.ledger._cash]_vars


-----------------------------------------------------------------------------
(* Properties of the action after a reset, checked under SpecReset *)

\* the USD amounts of a batch, summed
Committed(allocations) == SeqSum([i \in 1..Len(allocations) |-> allocations[i].usd])

\* the step is a tick that returned, with an action none of whose allocations
\* is in the failures list, and with no project completing in it
AllApplied ==
    /\ Returned
    /\ last_call'.allocations # <<>>
    /\ last_call'.failed_allocations = <<>>
    /\ \A n \in 1..Len(last_call'.obs[1].news) :
           last_call'.obs[1].news[n].event_type # "PROJECT_COMPLETION"

\* C39: after a reset, the allocations of a tick's action are applied to the
\* engine's current ledger: when none of them is in the failures list and no
\* project completes, the cash of the returned observation, which is the cash of
\* the engine's ledger, is below the cash before the tick, by no more than the
\* amounts allocated (a project short of funding takes a part of its amount)
C39_ActionOnCurrentLedger ==
    [][(AllApplied /\ audit.resets > 0) =>
          /\ last_call'.obs[1].cash = cash(ledger')
          /\ last_call'.obs[1].cash < cash(ledger)
          /\ last_call'.obs[1].cash >= cash(ledger) - Committed(last_call'.allocations)]_vars

\* the same statement for the ticks before any reset, which holds
ActionOnLedgerBeforeReset ==
    [][(AllApplied /\ audit.resets = 0) =>
          /\ last_call'.obs[1].cash = cash(ledger')
          /\ last_call'.obs[1].cash < cash(ledger)
          /\ last_call'.obs[1].cash >= cash(ledger) - Committed(last_call'.allocations)]_vars


-----------------------------------------------------------------------------
(* The shared backends under the HODL comparison, checked under SpecEngine *)

\* C40: with the HODL comparison enabled, a step moves the shared equity prices
\* and bond prices only through a shock that is a news event of the step's
\* primary observation, and moves them once: the prices it leaves are those the
\* same step leaves without the comparison, the HODL engine's own tick applying
\* no shock of its own to the shared backends
C40_OneShockPerStep ==
    [][(Returned /\ engine.enable_hodl_comparison) =>
          /\ (trade_backend' # trade_backend \/ debt_backend' # debt_backend)
                 => ShockNews(last_call'.obs[1]) # {}
          /\ (trade_backend = twin.S.stocks /\ ~twin'.raised)
                 => trade_backend' = twin'.S.stocks]_vars

=============================================================================
